---------------------------- MODULE Spec2Model ----------------------------
(***************************************************************************)
(* Outreach decision and throttling engine.                                *)
(*                                                                         *)
(*   - Account Quota Manager  (implementation/account_manager.py)          *)
(*   - Sliding Window Limiter (implementation/api_server.py, RateLimiter)  *)
(*                                                                         *)
(* Each component has its own next-state relation and specification over   *)
(* the shared variable tuple; the variables of the other component stay    *)
(* unchanged.                                                              *)
(***************************************************************************)
EXTENDS Integers, Sequences, FiniteSets, TLC

(***************************************************************************)
(* Bounds of the model.                                                    *)
(***************************************************************************)
\* number of concurrent callers of the quota manager
NumCallers == 2
\* daily_limit of every account
DailyLimit == 2
\* hourly_limit of account 1; the other accounts are bound by their daily limit only
HourlyLimit == 1
\* rows of the send log kept per account
MaxLog == 2
\* concurrent is_allowed calls
NumTasks == 2
\* RateLimiter.max_requests
MaxRequests == 2
\* RateLimiter.window_seconds
WindowSeconds == 1
\* length of the texts expand_spintax is called with
MaxSpinLen == 4
\* MAX_DMS_PER_HOUR and MAX_DMS_PER_DAY of the DM agent (INSTAGRAM_DM_PER_HOUR,
\* INSTAGRAM_DM_PER_DAY of the environment)
MAX_DMS_PER_HOUR == 1
MAX_DMS_PER_DAY == 2
\* leads one run_campaign call is given
MaxLeads == 2
\* DMs the agent attempts in all its campaigns
MaxAttempts == 3

(***************************************************************************)
(* Program constants.                                                      *)
(***************************************************************************)
\* datetime.now().date(): a day has 24 hours
HoursPerDay == 24
\* datetime.min, the sort key of a never used account: before every clock reading
DateTimeMin == -1
\* time.time() is read to the half second
TicksPerSec == 2
\* max_iterations of expand_spintax
MaxIterations == 10

\* the run covers the last hour of day 0 and the midnight that follows
StartClock == HoursPerDay - 1
EndClock == HoursPerDay

\* the stored account rows: two rows of one tenant
AccountIds == {1, 2}
Callers == 1..NumCallers
Tasks == 1..NumTasks
\* the client identities (client_ip)
Clients == {1, 2}
\* the window in clock readings; the run lasts one reading longer than a window
\* and a client makes one call more than max_requests
WindowTicks == WindowSeconds * TicksPerSec
MaxNow == WindowTicks + 1
MaxCalls == MaxRequests + 1
\* a retrying client is admitted max_requests times, rejected twice and calls
\* once more
MaxRetryCalls == MaxRequests + 3
Tenants == {"acme", "other"}
\* mark_blocked(hours=...): the default 24 and other values an int parameter takes
BlockHours == {0, 1, 24}

\* Optional values: None is the empty tuple, a present value v is <<v>>.
None == <<>>
Some(v) == <<v>>

\* tenant_id of a stored row: both rows belong to "acme", and "other" has none
TenantOf(a) == "acme"

VARIABLES
    \* ---- account quota manager
    accounts,   \* table instagram_accounts: id -> stored row
    sendLog,    \* table agentic_instagram_dm_sent: id -> sent_at of each row, in insertion order
    clock,      \* datetime.now(), in hours
    pc,         \* caller -> "idle" | "selected" | "sent"
    cur,        \* caller -> id of the account it holds (None when idle)
    last,       \* the manager call that has just returned: its inputs and its result
    \* ---- sliding window limiter
    requests,   \* RateLimiter.requests: client -> list of admitted timestamps
    lock,       \* RateLimiter._lock: the task holding it (None when free)
    rpc,        \* task -> position inside is_allowed
    rloc,       \* task -> locals of its is_allowed call
    now,        \* time.time(), in ticks
    hist,       \* client -> calls returned so far, whether a timestamp of it has
                \* expired, the result of the last call, the calls rejected so far
    statsOut,   \* the dict the last get_stats call returned (None before the first)
    \* ---- lead scoring and the template tier
    profile,    \* the profile dict handed to calculate_score (None before it arrives)
    score,      \* what calculate_score returned or raised (None before the call)
    composed,   \* the personalization levels generate and generate_hybrid chose
    \* ---- spintax expansion
    spIn,       \* expand_spintax: the text it was called with
    spText,     \* expand_spintax: the local text
    spIter,     \* expand_spintax: the local iteration
    spPc,       \* expand_spintax: "idle" | "loop" | "done"
    spPrev,     \* the result of the expansion before this one (None for the first)
    \* ---- DM campaign
    dmLog,      \* table agentic_instagram_dm_sent: sent_at of the agent's rows
    dmAttempts, \* the time of every send_dm the agent has made
    cpc,        \* run_campaign: "idle" | "check" | "send" | "record" | "done" | "raised"
    leads,      \* run_campaign: the leads not yet processed
    cnow        \* datetime.now(), in hours

amVars == <<accounts, sendLog, clock, pc, cur, last>>
rlVars == <<requests, lock, rpc, rloc, now, hist>>
lsVars == <<profile, score, composed>>
sxVars == <<spIn, spText, spIter, spPc, spPrev>>
cpVars == <<dmLog, dmAttempts, cpc, leads, cnow>>
vars == <<accounts, sendLog, clock, pc, cur, last,
          requests, lock, rpc, rloc, now, hist, statsOut,
          profile, score, composed,
          spIn, spText, spIter, spPc, spPrev,
          dmLog, dmAttempts, cpc, leads, cnow>>

(***************************************************************************)
(* Account Quota Manager: pure parts.                                      *)
(***************************************************************************)

\* content-range count of the rows of one account with sent_at >= since
CountSince(log, since) == Cardinality({i \in 1..Len(log) : log[i] >= since})

\* f"{today}T00:00:00": midnight of the current day
TodayStart(t) == (t \div HoursPerDay) * HoursPerDay

\* datetime.now() - timedelta(hours=1)
OneHourAgo(t) == t - 1

\* _get_account_stats: both counts, or zeros when a lookup raised
GetAccountStats(a, t, ok) ==
    IF ok
    THEN [today |-> CountSince(sendLog[a], TodayStart(t)),
          last_hour |-> CountSince(sendLog[a], OneHourAgo(t))]
    ELSE [today |-> 0, last_hour |-> 0]

\* InstagramAccount(...) built from a row and its stats
MakeAccount(a, stats) ==
    [id |-> a,
     tenant_id |-> TenantOf(a),
     status |-> accounts[a].status,
     daily_limit |-> accounts[a].daily_limit,
     hourly_limit |-> accounts[a].hourly_limit,
     last_used_at |-> accounts[a].last_used_at,
     blocked_until |-> accounts[a].blocked_until,
     dms_sent_today |-> stats.today,
     dms_sent_last_hour |-> stats.last_hour]

Max(x, y) == IF x >= y THEN x ELSE y

\* is_available with the daily test written > instead of >=
IsAvailableDailyOffByOne(x, t) ==
    IF x.status # "active" THEN FALSE
    ELSE IF x.blocked_until # None /\ x.blocked_until[1] > t THEN FALSE
    ELSE IF x.dms_sent_today > x.daily_limit THEN FALSE
    ELSE IF x.dms_sent_last_hour >= x.hourly_limit THEN FALSE
    ELSE TRUE

\* InstagramAccount.is_available, evaluated at time t
IsAvailable(x, t) ==
    IF x.status # "active" THEN FALSE
    ELSE IF x.blocked_until # None /\ x.blocked_until[1] > t THEN FALSE
    ELSE IF x.dms_sent_today >= x.daily_limit THEN FALSE
    ELSE IF x.dms_sent_last_hour >= x.hourly_limit THEN FALSE
    ELSE TRUE

\* InstagramAccount.remaining_today
RemainingToday(x) == Max(0, x.daily_limit - x.dms_sent_today)

\* the key written "a.last_used_at or datetime.max": a never used account sorts last
LastUsedKeyNeverUsedLast(x) ==
    IF x.last_used_at = None THEN EndClock + 1 ELSE x.last_used_at[1]

\* a.last_used_at or datetime.min
LastUsedKey(x) == IF x.last_used_at = None THEN DateTimeMin ELSE x.last_used_at[1]

\* the sort key (-remaining_today, last_used_at or datetime.min), compared as tuples
KeyLess(x, y) ==
    \/ -RemainingToday(x) < -RemainingToday(y)
    \/ /\ -RemainingToday(x) = -RemainingToday(y)
       /\ LastUsedKey(x) < LastUsedKey(y)

\* list.sort is stable: x goes before the first element whose key is greater
RECURSIVE InsertSorted(_, _)
InsertSorted(s, x) ==
    IF s = <<>> THEN <<x>>
    ELSE IF KeyLess(x, Head(s)) THEN <<x>> \o s
    ELSE <<Head(s)>> \o InsertSorted(Tail(s), x)

RECURSIVE SortAccounts(_)
SortAccounts(s) ==
    IF s = <<>> THEN <<>>
    ELSE InsertSorted(SortAccounts(SubSeq(s, 1, Len(s) - 1)), s[Len(s)])

\* [a for a in accounts if a.is_available]
RECURSIVE FilterAvailable(_, _)
FilterAvailable(s, t) ==
    IF s = <<>> THEN <<>>
    ELSE (IF IsAvailable(Head(s), t) THEN <<Head(s)>> ELSE <<>>)
         \o FilterAvailable(Tail(s), t)

\* the rows the store returns for tenant_id = eq.t, in the order it returns them
TenantRows(t) == {a \in AccountIds : TenantOf(a) = t}

Orders(S) == {s \in [1..Cardinality(S) -> S] : \A i, j \in 1..Cardinality(S) : i # j => s[i] # s[j]}

\* get_tenant_accounts without its try/except: a failed load propagates
GetTenantAccountsNoCatch(t, loadOk, statsOk, order) ==
    IF loadOk
    THEN [raised |-> FALSE,
          accounts |-> [i \in 1..Len(order) |->
                          MakeAccount(order[i],
                                      GetAccountStats(order[i], clock, order[i] \in statsOk))]]
    ELSE [raised |-> TRUE, accounts |-> <<>>]

\* get_tenant_accounts: the rows in store order with their stats; [] when the
\* load raised (the exception is caught and logged)
GetTenantAccounts(t, loadOk, statsOk, order) ==
    IF loadOk
    THEN [raised |-> FALSE,
          accounts |-> [i \in 1..Len(order) |->
                          MakeAccount(order[i],
                                      GetAccountStats(order[i], clock, order[i] \in statsOk))]]
    ELSE [raised |-> FALSE, accounts |-> <<>>]

\* get_available_account
GetAvailableAccount(t, loadOk, statsOk, order) ==
    LET got == GetTenantAccounts(t, loadOk, statsOk, order)
        available == FilterAvailable(got.accounts, clock)
        sorted == SortAccounts(available)
    IN  [op |-> "select",
         tenant |-> t,
         at |-> clock,
         loadOk |-> loadOk,
         statsOk |-> statsOk,
         raised |-> got.raised,
         accounts |-> got.accounts,
         available |-> available,
         result |-> IF got.raised \/ available = <<>> THEN None ELSE Some(sorted[1])]


(***************************************************************************)
(* Account Quota Manager: state and operations.                            *)
(***************************************************************************)

\* no manager call has just returned
NoCall == [op |-> "none"]

InitAM ==
    /\ accounts = [a \in AccountIds |->
                     [status |-> "active",
                      daily_limit |-> DailyLimit,
                      hourly_limit |-> IF a = 1 THEN HourlyLimit ELSE DailyLimit + 1,
                      last_used_at |-> None,
                      blocked_until |-> None]]
    /\ sendLog = [a \in AccountIds |-> <<>>]
    /\ clock = StartClock
    /\ pc = [c \in Callers |-> "idle"]
    /\ cur = [c \in Callers |-> None]
    /\ last = NoCall

\* account = manager.get_available_account(tenant), the store answering the row
\* load with loadOk and the stats lookup of the rows in statsOk; it returns the
\* rows in any order
SelectWith(c, t, loadOk, statsOk) ==
    /\ pc[c] = "idle"
    /\ \E order \in Orders(TenantRows(t)) :
          LET r == GetAvailableAccount(t, loadOk, statsOk, order) IN
          /\ last' = r
          /\ IF r.result = None
             THEN UNCHANGED <<pc, cur>>
             ELSE /\ pc' = [pc EXCEPT ![c] = "selected"]
                  /\ cur' = [cur EXCEPT ![c] = Some(r.result[1].id)]
    /\ UNCHANGED <<accounts, sendLog, clock>>
    /\ UNCHANGED <<rlVars, statsOut, lsVars, sxVars, cpVars>>

\* the call against a store that may fail the row load, or the stats lookup of any row
SelectAccount(c, t) ==
    \E loadOk \in BOOLEAN :
    \E statsOk \in (IF loadOk THEN SUBSET TenantRows(t) ELSE {{}}) :
       SelectWith(c, t, loadOk, statsOk)

\* the call against a store that answers every request
SelectAccountHealthy(c, t) == SelectWith(c, t, TRUE, TenantRows(t))

\* the caller sends with the account it holds; the attempt is logged with
\* account_used and sent_at = now whether it succeeded or not
Send(c) ==
    /\ pc[c] = "selected"
    /\ Len(sendLog[cur[c][1]]) < MaxLog
    /\ sendLog' = [sendLog EXCEPT ![cur[c][1]] = Append(@, clock)]
    /\ \E success \in BOOLEAN :
          IF success
          THEN pc' = [pc EXCEPT ![c] = "sent"] /\ UNCHANGED cur
          ELSE pc' = [pc EXCEPT ![c] = "idle"] /\ cur' = [cur EXCEPT ![c] = None]
    /\ last' = NoCall
    /\ UNCHANGED <<accounts, clock>>
    /\ UNCHANGED <<rlVars, statsOut, lsVars, sxVars, cpVars>>

\* the request of a store method that lets the error of _request out
RequestRaisesNoCatch(ok) == ~ok

\* try: self._request(...) except Exception as e: logger.error(...): the error of
\* a failed request is logged and nothing leaves record_usage, mark_blocked or
\* unblock_account
RequestRaises(ok) == FALSE

\* record_usage that also reactivates the account it stamps
PatchLastUsedClearsBlock(a, ok) ==
    IF ok
    THEN [accounts EXCEPT ![a].last_used_at = Some(clock),
                          ![a].status = "active",
                          ![a].blocked_until = None]
    ELSE accounts

\* record_usage whose PATCH has no id filter: every row is stamped
PatchLastUsedEveryRow(a, ok) ==
    IF ok
    THEN [b \in DOMAIN accounts |-> [accounts[b] EXCEPT !.last_used_at = Some(clock)]]
    ELSE accounts

\* record_usage(account_id): PATCH last_used_at; a failed request is logged and dropped
PatchLastUsed(a, ok) ==
    IF ok THEN [accounts EXCEPT ![a].last_used_at = Some(clock)] ELSE accounts

RecordUsage(c) ==
    /\ pc[c] = "sent"
    /\ \E ok \in BOOLEAN :
          /\ accounts' = PatchLastUsed(cur[c][1], ok)
          /\ last' = [op |-> "record_usage", id |-> cur[c][1], ok |-> ok,
                      raised |-> RequestRaises(ok)]
    /\ pc' = [pc EXCEPT ![c] = "idle"]
    /\ cur' = [cur EXCEPT ![c] = None]
    /\ UNCHANGED <<sendLog, clock>>
    /\ UNCHANGED <<rlVars, statsOut, lsVars, sxVars, cpVars>>

\* mark_blocked(account_id, hours): PATCH status and blocked_until = now + hours
PatchBlocked(a, hours, ok) ==
    IF ok
    THEN [accounts EXCEPT ![a].status = "blocked",
                          ![a].blocked_until = Some(clock + hours)]
    ELSE accounts

MarkBlocked(a, hours) ==
    /\ \E ok \in BOOLEAN :
          /\ accounts' = PatchBlocked(a, hours, ok)
          /\ last' = [op |-> "mark_blocked", id |-> a, ok |-> ok,
                      raised |-> RequestRaises(ok)]
    /\ UNCHANGED <<sendLog, clock, pc, cur>>
    /\ UNCHANGED <<rlVars, statsOut, lsVars, sxVars, cpVars>>

\* unblock_account that nulls blocked_until and leaves the status
PatchUnblockedKeepsStatus(a, ok) ==
    IF ok THEN [accounts EXCEPT ![a].blocked_until = None] ELSE accounts

\* unblock_account(account_id): PATCH status = active, blocked_until = null
PatchUnblocked(a, ok) ==
    IF ok
    THEN [accounts EXCEPT ![a].status = "active", ![a].blocked_until = None]
    ELSE accounts

Unblock(a) ==
    /\ \E ok \in BOOLEAN :
          /\ accounts' = PatchUnblocked(a, ok)
          /\ last' = [op |-> "unblock", id |-> a, ok |-> ok,
                      raised |-> RequestRaises(ok)]
    /\ UNCHANGED <<sendLog, clock, pc, cur>>
    /\ UNCHANGED <<rlVars, statsOut, lsVars, sxVars, cpVars>>

\* an hour passes
Tick ==
    /\ clock < EndClock
    /\ clock' = clock + 1
    /\ last' = NoCall
    /\ UNCHANGED <<accounts, sendLog, pc, cur>>
    /\ UNCHANGED <<rlVars, statsOut, lsVars, sxVars, cpVars>>

(***************************************************************************)
(* Sliding Window Limiter.                                                 *)
(***************************************************************************)

\* self.requests[client_ip] of the defaultdict(list): [] for an untracked client
TimesOf(c) == IF c \in DOMAIN requests THEN requests[c] ELSE <<>>

\* the comprehension without its test: every timestamp is kept
RecentKeepAll(times, windowStart) == times

\* the comprehension with the test written >=: a timestamp exactly one window
\* old is kept
RECURSIVE RecentInclusive(_, _)
RecentInclusive(times, windowStart) ==
    IF times = <<>> THEN <<>>
    ELSE (IF Head(times) >= windowStart THEN <<Head(times)>> ELSE <<>>)
         \o RecentInclusive(Tail(times), windowStart)

\* [req_time for req_time in times if req_time > window_start]
RECURSIVE Recent(_, _)
Recent(times, windowStart) ==
    IF times = <<>> THEN <<>>
    ELSE (IF Head(times) > windowStart THEN <<Head(times)>> ELSE <<>>)
         \o Recent(Tail(times), windowStart)

\* min(times), times not empty
MinOf(times) == CHOOSE m \in {times[i] : i \in 1..Len(times)} :
                    \A i \in 1..Len(times) : m <= times[i]

\* int(x) of a duration of x clock readings: whole seconds, rounded towards zero
IntSeconds(x) == IF x >= 0 THEN x \div TicksPerSec ELSE -((-x) \div TicksPerSec)

\* reset_time: int(oldest + window_seconds - now), or window_seconds for an empty list
ResetTime(times, t) ==
    IF times # <<>> THEN IntSeconds(MinOf(times) + WindowTicks - t) ELSE WindowSeconds

\* the limit test written > instead of >=
OverLimitOffByOne(count) == count > MaxRequests

\* current_count >= self.max_requests
OverLimit(count) == count >= MaxRequests

\* an assignment that writes v under every key of the dict
DictSetAll(d, k, v) == [x \in DOMAIN d \cup {k} |-> v]

\* assignment d[k] = v of a dict
DictSet(d, k, v) == [x \in DOMAIN d \cup {k} |-> IF x = k THEN v ELSE d[x]]

NoLocals == [client |-> 0]

InitRL ==
    /\ requests = <<>>
    /\ lock = None
    /\ rpc = [t \in Tasks |-> "idle"]
    /\ rloc = [t \in Tasks |-> NoLocals]
    /\ now = 0
    /\ hist = [c \in Clients |-> [calls |-> 0, fresh |-> TRUE, out |-> None, rejected |-> 0]]

\* calls of client c that have started and not returned
InFlight(c) == Cardinality({t \in Tasks : rpc[t] # "idle" /\ rloc[t].client = c})

\* a request of client c arrives: is_allowed(c) is called; the client makes at
\* most cap calls
CallUpTo(t, c, cap) ==
    /\ rpc[t] = "idle"
    /\ hist[c].calls + InFlight(c) < cap
    /\ rpc' = [rpc EXCEPT ![t] = "acquire"]
    /\ rloc' = [rloc EXCEPT ![t] = [client |-> c]]
    /\ UNCHANGED <<requests, lock, now, hist>>
    /\ UNCHANGED <<amVars, statsOut, lsVars, sxVars, cpVars>>

Call(t, c) == CallUpTo(t, c, MaxCalls)

\* a client that keeps calling after a rejection
Retry(t, c) == CallUpTo(t, c, MaxRetryCalls)

\* is_allowed without the lock
LockAlwaysFree == TRUE

\* async with self._lock: wait until the lock is free
LockFree == lock = None

Acquire(t) ==
    /\ rpc[t] = "acquire"
    /\ LockFree
    /\ lock' = Some(t)
    /\ rpc' = [rpc EXCEPT ![t] = "purge"]
    /\ UNCHANGED <<requests, rloc, now, hist>>
    /\ UNCHANGED <<amVars, statsOut, lsVars, sxVars, cpVars>>

\* now = time.time(); drop the timestamps outside the window
Purge(t) ==
    /\ rpc[t] = "purge"
    /\ LET c == rloc[t].client
           kept == Recent(TimesOf(c), now - WindowTicks)
       IN  /\ requests' = DictSet(requests, c, kept)
           /\ rloc' = [rloc EXCEPT ![t] = [client |-> c, now |-> now,
                                           purged |-> Len(kept) < Len(TimesOf(c))]]
    /\ rpc' = [rpc EXCEPT ![t] = "count"]
    /\ UNCHANGED <<lock, now, hist>>
    /\ UNCHANGED <<amVars, statsOut, lsVars, sxVars, cpVars>>

\* current_count, remaining, reset_time and the info dict
Count(t) ==
    /\ rpc[t] = "count"
    /\ LET c == rloc[t].client
           count == Len(requests[c])
           remaining == Max(0, MaxRequests - count)
       IN  rloc' = [rloc EXCEPT ![t] =
                      [client |-> c, now |-> rloc[t].now, purged |-> rloc[t].purged,
                       count |-> count, remaining |-> remaining,
                       reset |-> Max(0, ResetTime(requests[c], rloc[t].now))]]
    /\ rpc' = [rpc EXCEPT ![t] = "decide"]
    /\ UNCHANGED <<requests, lock, now, hist>>
    /\ UNCHANGED <<amVars, statsOut, lsVars, sxVars, cpVars>>

\* the record of a client after one more call returned (allowed, info) to it
Returned(h, purged, result) ==
    [calls |-> h.calls + 1, fresh |-> h.fresh /\ ~purged, out |-> Some(result),
     rejected |-> IF result.allowed THEN h.rejected ELSE h.rejected + 1]

\* reject, or record the request and admit; the lock is released on return
Decide(t) ==
    /\ rpc[t] = "decide"
    /\ LET c == rloc[t].client IN
       IF OverLimit(rloc[t].count)
       THEN /\ UNCHANGED requests
            /\ hist' = [hist EXCEPT ![c] = Returned(@, rloc[t].purged,
                          [allowed |-> FALSE, remaining |-> rloc[t].remaining,
                           reset |-> rloc[t].reset])]
       ELSE /\ requests' = [requests EXCEPT ![c] = Append(@, rloc[t].now)]
            /\ hist' = [hist EXCEPT ![c] = Returned(@, rloc[t].purged,
                          [allowed |-> TRUE, remaining |-> rloc[t].remaining - 1,
                           reset |-> rloc[t].reset])]
    /\ lock' = None
    /\ rpc' = [rpc EXCEPT ![t] = "idle"]
    /\ rloc' = [rloc EXCEPT ![t] = NoLocals]
    /\ UNCHANGED now
    /\ UNCHANGED <<amVars, statsOut, lsVars, sxVars, cpVars>>

\* time.time() advances
TickRL ==
    /\ now < MaxNow
    /\ now' = now + 1
    /\ UNCHANGED <<requests, lock, rpc, rloc, hist>>
    /\ UNCHANGED <<amVars, statsOut, lsVars, sxVars, cpVars>>

(***************************************************************************)
(* Lead Scoring Engine: texts and keyword tables.                          *)
(* A text is a sequence of one-character strings.                          *)
(***************************************************************************)

\* full_name "Dra Ana"
NameDra ==
    <<"D", "r", "a", " ", "A", "n", "a">>

\* bio "CEO"
BioCeo ==
    <<"C", "E", "O">>

\* bio "mãe de dois": longer than 10 characters, no keyword of any table
BioPlain ==
    <<"m", "ã", "e", " ", "d", "e", " ", "d", "o", "i", "s">>

\* bio "CEO | SP | tech"
BioRich ==
    <<"C", "E", "O", " ", "|", " ", "S", "P", " ", "|", " ", "t", "e", "c", "h">>

\* bio "estudante de medicina": a keyword of the profession médico, no decision-maker keyword
BioMedicina ==
    <<"e", "s", "t", "u", "d", "a", "n", "t", "e", " ", "d", "e", " ", "m", "e", "d", "i", "c", "i", "n", "a">>

\* bio "Advogada tributária | SP": a profession, no specialty, a first part of 19 characters
BioAdvogada ==
    <<"A", "d", "v", "o", "g", "a", "d", "a", " ", "t", "r", "i", "b", "u", "t", "á", "r", "i", "a", " ", "|", " ", "S", "P">>

\* bio "yoga": a specialty keyword in a bio of 4 characters
BioYoga ==
    <<"y", "o", "g", "a">>

\* bio "Harmonização facial": a specialty keyword
BioHarmonizacao ==
    <<"H", "a", "r", "m", "o", "n", "i", "z", "a", "ç", "ã", "o", " ", "f", "a", "c", "i", "a", "l">>

\* bio "amo tecnologia": an interest, no profession, no specialty, no separator
BioTecnologia ==
    <<"a", "m", "o", " ", "t", "e", "c", "n", "o", "l", "o", "g", "i", "a">>

\* bio "Oi | sou advogada tributária U+2022 SP": a first part of 2 characters before |, one of 28 before U+2022
BioTwoSeparators ==
    <<"O", "i", " ", "|", " ", "s", "o", "u", " ", "a", "d", "v", "o", "g", "a", "d", "a", " ", "t", "r", "i", "b", "u", "t", "á", "r", "i", "a", " ", "U+2022", " ", "S", "P">>

\* posting_frequency "muito ativo"
FreqActive ==
    <<"m", "u", "i", "t", "o", " ", "a", "t", "i", "v", "o">>

\* str.lower() on one character: the letters A-Z; every other character of the
\* texts used here is its own lower case
LowerOf ==
    ("A" :> "a") @@ ("B" :> "b") @@ ("C" :> "c") @@ ("D" :> "d") @@ ("E" :> "e") @@ ("F" :> "f") @@
    ("G" :> "g") @@ ("H" :> "h") @@ ("I" :> "i") @@ ("J" :> "j") @@ ("K" :> "k") @@ ("L" :> "l") @@
    ("M" :> "m") @@ ("N" :> "n") @@ ("O" :> "o") @@ ("P" :> "p") @@ ("Q" :> "q") @@ ("R" :> "r") @@
    ("S" :> "s") @@ ("T" :> "t") @@ ("U" :> "u") @@ ("V" :> "v") @@ ("W" :> "w") @@ ("X" :> "x") @@
    ("Y" :> "y") @@ ("Z" :> "z")

\* the characters \w matches (letters, digits, underscore) among those used here
WordChars ==
    {"a", "b", "c", "d", "e", "f", "g", "h", "i", "j", "k", "l", "m", "n", "o", "p", "q", "r",
     "s", "t", "u", "v", "w", "x", "y", "z", "A", "B", "C", "D", "E", "F", "G", "H", "I", "J",
     "K", "L", "M", "N", "O", "P", "Q", "R", "S", "T", "U", "V", "W", "X", "Y", "Z", "á", "ã",
     "ç", "é", "í", "ó", "ô", "ú", "0", "1", "2", "3", "4", "5", "6", "7", "8", "9", "_"}

\* LeadScorer.DECISION_MAKER_KEYWORDS
DECISION_MAKER_KEYWORDS ==
    <<
       <<"c", "e", "o">>,
       <<"f", "u", "n", "d", "a", "d", "o", "r">>,
       <<"f", "o", "u", "n", "d", "e", "r">>,
       <<"d", "o", "n", "o">>,
       <<"p", "r", "o", "p", "r", "i", "e", "t", "á", "r", "i", "o">>,
       <<"d", "i", "r", "e", "t", "o", "r">>,
       <<"e", "m", "p", "r", "e", "s", "á", "r", "i", "o">>,
       <<"e", "m", "p", "r", "e", "e", "n", "d", "e", "d", "o", "r">>,
       <<"s", "ó", "c", "i", "o">>,
       <<"g", "e", "s", "t", "o", "r">>,
       <<"g", "e", "r", "e", "n", "t", "e">>,
       <<"e", "x", "e", "c", "u", "t", "i", "v", "o">>,
       <<"c", "-", "l", "e", "v", "e", "l">>,
       <<"h", "e", "a", "d">>,
       <<"l", "í", "d", "e", "r">>,
       <<"c", "o", "o", "r", "d", "e", "n", "a", "d", "o", "r">>,
       <<"m", "é", "d", "i", "c", "o">>,
       <<"m", "é", "d", "i", "c", "a">>,
       <<"d", "r", ".">>,
       <<"d", "r", "a", ".">>,
       <<"a", "d", "v", "o", "g", "a", "d", "o">>,
       <<"a", "d", "v", "o", "g", "a", "d", "a">>,
       <<"d", "e", "n", "t", "i", "s", "t", "a">>,
       <<"a", "r", "q", "u", "i", "t", "e", "t", "o">>,
       <<"e", "n", "g", "e", "n", "h", "e", "i", "r", "o">>,
       <<"p", "s", "i", "c", "ó", "l", "o", "g", "o">>,
       <<"n", "u", "t", "r", "i", "c", "i", "o", "n", "i", "s", "t", "a">>,
       <<"f", "i", "s", "i", "o", "t", "e", "r", "a", "p", "e", "u", "t", "a">>,
       <<"c", "o", "a", "c", "h">>,
       <<"c", "o", "n", "s", "u", "l", "t", "o", "r">>,
       <<"c", "o", "n", "s", "u", "l", "t", "o", "r", "a">>,
       <<"e", "n", "t", "r", "e", "p", "r", "e", "n", "e", "u", "r">>,
       <<"b", "u", "s", "i", "n", "e", "s", "s", " ", "o", "w", "n", "e", "r">>,
       <<"m", "a", "n", "a", "g", "e", "r">>,
       <<"d", "i", "r", "e", "c", "t", "o", "r">> >>

\* LeadScorer.INTEREST_KEYWORDS, in the order of the dict
INTEREST_KEYWORDS ==
    <<
       [name |-> "marketing",
        keywords |-> << <<"m", "a", "r", "k", "e", "t", "i", "n", "g">>,
                      <<"g", "r", "o", "w", "t", "h">>,
                      <<"v", "e", "n", "d", "a", "s">>,
                      <<"s", "a", "l", "e", "s">>,
                      <<"l", "e", "a", "d", "s">>,
                      <<"t", "r", "á", "f", "e", "g", "o">> >>],
       [name |-> "tecnologia",
        keywords |-> << <<"t", "e", "c", "h">>,
                      <<"s", "t", "a", "r", "t", "u", "p">>,
                      <<"s", "a", "a", "s">>,
                      <<"s", "o", "f", "t", "w", "a", "r", "e">>,
                      <<"a", "u", "t", "o", "m", "a", "ç", "ã", "o">>,
                      <<"i", "a">>,
                      <<"a", "i">> >>],
       [name |-> "negocios",
        keywords |-> << <<"b", "u", "s", "i", "n", "e", "s", "s">>,
                      <<"n", "e", "g", "ó", "c", "i", "o">>,
                      <<"e", "m", "p", "r", "e", "s", "a">>,
                      <<"e", "m", "p", "r", "e", "e", "n", "d">>,
                      <<"l", "u", "c", "r", "o">>,
                      <<"f", "a", "t", "u", "r", "a", "m", "e", "n", "t", "o">> >>],
       [name |-> "estetica",
        keywords |-> << <<"e", "s", "t", "é", "t", "i", "c", "a">>,
                      <<"b", "e", "l", "e", "z", "a">>,
                      <<"c", "l", "í", "n", "i", "c", "a">>,
                      <<"p", "r", "o", "c", "e", "d", "i", "m", "e", "n", "t", "o">>,
                      <<"h", "a", "r", "m", "o", "n", "i", "z", "a", "ç", "ã", "o">> >>],
       [name |-> "saude",
        keywords |-> << <<"s", "a", "ú", "d", "e">>,
                      <<"b", "e", "m", "-", "e", "s", "t", "a", "r">>,
                      <<"f", "i", "t", "n", "e", "s", "s">>,
                      <<"n", "u", "t", "r", "i", "ç", "ã", "o">>,
                      <<"m", "e", "d", "i", "c", "i", "n", "a">> >>],
       [name |-> "financas",
        keywords |-> << <<"i", "n", "v", "e", "s", "t", "i", "m", "e", "n", "t", "o">>,
                      <<"f", "i", "n", "a", "n", "ç", "a", "s">>,
                      <<"r", "e", "n", "d", "a">>,
                      <<"d", "i", "n", "h", "e", "i", "r", "o">>,
                      <<"p", "a", "t", "r", "i", "m", "ô", "n", "i", "o">> >>],
       [name |-> "educacao",
        keywords |-> << <<"c", "u", "r", "s", "o">>,
                      <<"m", "e", "n", "t", "o", "r", "i", "a">>,
                      <<"t", "r", "e", "i", "n", "a", "m", "e", "n", "t", "o">>,
                      <<"e", "n", "s", "i", "n", "o">>,
                      <<"e", "d", "u", "c", "a", "ç", "ã", "o">> >>] >>

\* LeadScorer.HIGH_VALUE_LOCATIONS
HIGH_VALUE_LOCATIONS ==
    <<
       <<"s", "p">>,
       <<"s", "ã", "o", " ", "p", "a", "u", "l", "o">>,
       <<"s", "a", "o", " ", "p", "a", "u", "l", "o">>,
       <<"s", "a", "m", "p", "a">>,
       <<"r", "j">>,
       <<"r", "i", "o", " ", "d", "e", " ", "j", "a", "n", "e", "i", "r", "o">>,
       <<"r", "i", "o">>,
       <<"b", "h">>,
       <<"b", "e", "l", "o", " ", "h", "o", "r", "i", "z", "o", "n", "t", "e">>,
       <<"b", "r", "a", "s", "í", "l", "i", "a">>,
       <<"b", "r", "a", "s", "i", "l", "i", "a">>,
       <<"d", "f">>,
       <<"c", "u", "r", "i", "t", "i", "b", "a">>,
       <<"p", "o", "r", "t", "o", " ", "a", "l", "e", "g", "r", "e">>,
       <<"f", "l", "o", "r", "i", "a", "n", "ó", "p", "o", "l", "i", "s">>,
       <<"s", "a", "l", "v", "a", "d", "o", "r">>,
       <<"r", "e", "c", "i", "f", "e">>,
       <<"f", "o", "r", "t", "a", "l", "e", "z", "a">>,
       <<"c", "a", "m", "p", "i", "n", "a", "s">> >>

\* the dict professions of _detect_profession, in its order
PROFESSIONS ==
    <<
       [name |-> "médico",
        keywords |-> << <<"m", "é", "d", "i", "c", "o">>,
                      <<"m", "é", "d", "i", "c", "a">>,
                      <<"d", "r", ".">>,
                      <<"d", "r", "a", ".">>,
                      <<"m", "e", "d", "i", "c", "i", "n", "a">> >>],
       [name |-> "dentista",
        keywords |-> << <<"d", "e", "n", "t", "i", "s", "t", "a">>,
                      <<"o", "d", "o", "n", "t", "o">>,
                      <<"c", "i", "r", "u", "r", "g", "i", "ã", "o", " ", "d", "e", "n", "t", "i", "s", "t", "a">> >>],
       [name |-> "advogado",
        keywords |-> << <<"a", "d", "v", "o", "g", "a", "d", "o">>,
                      <<"a", "d", "v", "o", "g", "a", "d", "a">>,
                      <<"j", "u", "r", "í", "d", "i", "c", "o">>,
                      <<"d", "i", "r", "e", "i", "t", "o">> >>],
       [name |-> "empresário",
        keywords |-> << <<"e", "m", "p", "r", "e", "s", "á", "r", "i", "o">>,
                      <<"e", "m", "p", "r", "e", "s", "á", "r", "i", "a">>,
                      <<"e", "m", "p", "r", "e", "e", "n", "d", "e", "d", "o", "r">>,
                      <<"f", "o", "u", "n", "d", "e", "r">>,
                      <<"c", "e", "o">> >>],
       [name |-> "coach",
        keywords |-> << <<"c", "o", "a", "c", "h">>,
                      <<"m", "e", "n", "t", "o", "r", "a">>,
                      <<"m", "e", "n", "t", "o", "r">> >>],
       [name |-> "consultor",
        keywords |-> << <<"c", "o", "n", "s", "u", "l", "t", "o", "r">>,
                      <<"c", "o", "n", "s", "u", "l", "t", "o", "r", "a">>,
                      <<"c", "o", "n", "s", "u", "l", "t", "o", "r", "i", "a">> >>],
       [name |-> "nutricionista",
        keywords |-> << <<"n", "u", "t", "r", "i", "c", "i", "o", "n", "i", "s", "t", "a">>,
                      <<"n", "u", "t", "r", "i">>,
                      <<"n", "u", "t", "r", "i", "ç", "ã", "o">> >>],
       [name |-> "psicólogo",
        keywords |-> << <<"p", "s", "i", "c", "ó", "l", "o", "g", "o">>,
                      <<"p", "s", "i", "c", "ó", "l", "o", "g", "a">>,
                      <<"p", "s", "i", "c", "o">>,
                      <<"t", "e", "r", "a", "p", "e", "u", "t", "a">> >>],
       [name |-> "arquiteto",
        keywords |-> << <<"a", "r", "q", "u", "i", "t", "e", "t", "o">>,
                      <<"a", "r", "q", "u", "i", "t", "e", "t", "a">>,
                      <<"a", "r", "q", "u", "i", "t", "e", "t", "u", "r", "a">> >>],
       [name |-> "designer",
        keywords |-> << <<"d", "e", "s", "i", "g", "n", "e", "r">>,
                      <<"d", "e", "s", "i", "g", "n">>,
                      <<"u", "x">>,
                      <<"u", "i">> >>],
       [name |-> "desenvolvedor",
        keywords |-> << <<"d", "e", "v", "e", "l", "o", "p", "e", "r">>,
                      <<"d", "e", "s", "e", "n", "v", "o", "l", "v", "e", "d", "o", "r">>,
                      <<"p", "r", "o", "g", "r", "a", "m", "a", "d", "o", "r">>,
                      <<"t", "e", "c", "h">> >>],
       [name |-> "marketing",
        keywords |-> << <<"m", "a", "r", "k", "e", "t", "i", "n", "g">>,
                      <<"g", "r", "o", "w", "t", "h">>,
                      <<"s", "o", "c", "i", "a", "l", " ", "m", "e", "d", "i", "a">>,
                      <<"t", "r", "á", "f", "e", "g", "o">> >>] >>

\* the keys of the dict professions of _detect_profession, as texts
ProfessionText ==
    ("médico" :> <<"m", "é", "d", "i", "c", "o">>) @@
    ("dentista" :> <<"d", "e", "n", "t", "i", "s", "t", "a">>) @@
    ("advogado" :> <<"a", "d", "v", "o", "g", "a", "d", "o">>) @@
    ("empresário" :> <<"e", "m", "p", "r", "e", "s", "á", "r", "i", "o">>) @@
    ("coach" :> <<"c", "o", "a", "c", "h">>) @@
    ("consultor" :> <<"c", "o", "n", "s", "u", "l", "t", "o", "r">>) @@
    ("nutricionista" :> <<"n", "u", "t", "r", "i", "c", "i", "o", "n", "i", "s", "t", "a">>) @@
    ("psicólogo" :> <<"p", "s", "i", "c", "ó", "l", "o", "g", "o">>) @@
    ("arquiteto" :> <<"a", "r", "q", "u", "i", "t", "e", "t", "o">>) @@
    ("designer" :> <<"d", "e", "s", "i", "g", "n", "e", "r">>) @@
    ("desenvolvedor" :> <<"d", "e", "s", "e", "n", "v", "o", "l", "v", "e", "d", "o", "r">>) @@
    ("marketing" :> <<"m", "a", "r", "k", "e", "t", "i", "n", "g">>)

\* the alternatives of the pattern (empresa|negócio|...) of _calculate_bio_score
BUSINESS_TERMS ==
    <<
       <<"e", "m", "p", "r", "e", "s", "a">>,
       <<"n", "e", "g", "ó", "c", "i", "o">>,
       <<"b", "u", "s", "i", "n", "e", "s", "s">>,
       <<"f", "o", "u", "n", "d", "e", "r">>,
       <<"c", "e", "o">>,
       <<"s", "t", "a", "r", "t", "u", "p">>,
       <<"c", "l", "í", "n", "i", "c", "a">>,
       <<"c", "o", "n", "s", "u", "l", "t", "ó", "r", "i", "o">> >>

\* the alternatives of the pattern \b(dr\.|dra\.|dr |dra )\b of _calculate_bio_score
TITLE_MARKERS ==
    <<
       <<"d", "r", ".">>,
       <<"d", "r", "a", ".">>,
       <<"d", "r", " ">>,
       <<"d", "r", "a", " ">> >>

\* str.lower()
Lower(s) == [i \in 1..Len(s) |-> IF s[i] \in DOMAIN LowerOf THEN LowerOf[s[i]] ELSE s[i]]

\* the whitespace of the texts used here
Whitespace == {" "}

\* str.strip()
RECURSIVE Strip(_)
Strip(t) ==
    IF t = <<>> THEN t
    ELSE IF Head(t) \in Whitespace THEN Strip(Tail(t))
    ELSE IF t[Len(t)] \in Whitespace THEN Strip(SubSeq(t, 1, Len(t) - 1))
    ELSE t

\* k in s, for texts
Contains(s, k) ==
    \E i \in 1..(Len(s) - Len(k) + 1) : \A m \in 1..Len(k) : s[i + m - 1] = k[m]

\* some keyword of the list ks is in s
ContainsAny(s, ks) == \E j \in 1..Len(ks) : Contains(s, ks[j])

\* \b between s[i] and s[i+1] (i = 0: before the text, i = Len(s): after it)
WordBoundary(s, i) ==
    (i >= 1 /\ s[i] \in WordChars) # (i < Len(s) /\ s[i + 1] \in WordChars)

\* re.search(r'\b(dr\.|dra\.|dr |dra )\b', s)
TitleSearch(s) ==
    \E j \in 1..Len(TITLE_MARKERS) :
    \E i \in 1..(Len(s) - Len(TITLE_MARKERS[j]) + 1) :
        /\ \A m \in 1..Len(TITLE_MARKERS[j]) : s[i + m - 1] = TITLE_MARKERS[j][m]
        /\ WordBoundary(s, i - 1)
        /\ WordBoundary(s, i + Len(TITLE_MARKERS[j]) - 1)

\* a key the profile dict lacks
Absent == <<0, 0>>

\* profile.get(key, default)
Get(p, key, default) == IF p[key] = Absent THEN default ELSE p[key]

\* bool(v) of a value that is None or a bool
TruthyFlag(v) == v # None /\ v[1]

\* bool(v) of a value that is None or a text
TruthyText(v) == v # None /\ v[1] # <<>>

\* bool(v) of a value that is None or a list, held by its length
TruthyList(v) == v # None /\ v[1] # 0

\* (v or ''), for a text value
OrEmpty(v) == IF v = None \/ v[1] = <<>> THEN <<>> ELSE v[1]

\* _is_decision_maker
IsDecisionMaker(bio, full_name) ==
    LET combined == Lower(bio \o <<" ">> \o full_name)
    IN  ContainsAny(combined, DECISION_MAKER_KEYWORDS)

\* the first index of a table whose keyword list has a keyword in s (0: none)
FirstRow(table, s) ==
    IF \E r \in 1..Len(table) : ContainsAny(s, table[r].keywords)
    THEN CHOOSE r \in 1..Len(table) :
            /\ ContainsAny(s, table[r].keywords)
            /\ \A q \in 1..(r - 1) : ~ContainsAny(s, table[q].keywords)
    ELSE 0

\* _detect_profession: the first profession of the dict with a keyword in bio + ' ' + full_name
DetectProfession(bio, full_name) ==
    LET r == FirstRow(PROFESSIONS, Lower(bio \o <<" ">> \o full_name))
    IN  IF r = 0 THEN None ELSE Some(PROFESSIONS[r].name)

\* _detect_interests: the categories with a keyword in the bio (list(set(...)))
DetectInterests(bio) ==
    IF bio = <<>> THEN {}
    ELSE LET bio_lower == Lower(bio) IN
         {INTEREST_KEYWORDS[r].name :
             r \in {q \in 1..Len(INTEREST_KEYWORDS) :
                       ContainsAny(bio_lower, INTEREST_KEYWORDS[q].keywords)}}

\* the dict location_map of _detect_location
LOCATION_MAP ==
    <<
       [key |-> <<"s", "p">>,
        name |-> <<"S", "ã", "o", " ", "P", "a", "u", "l", "o">>],
       [key |-> <<"s", "ã", "o", " ", "p", "a", "u", "l", "o">>,
        name |-> <<"S", "ã", "o", " ", "P", "a", "u", "l", "o">>],
       [key |-> <<"s", "a", "o", " ", "p", "a", "u", "l", "o">>,
        name |-> <<"S", "ã", "o", " ", "P", "a", "u", "l", "o">>],
       [key |-> <<"r", "j">>,
        name |-> <<"R", "i", "o", " ", "d", "e", " ", "J", "a", "n", "e", "i", "r", "o">>],
       [key |-> <<"r", "i", "o", " ", "d", "e", " ", "j", "a", "n", "e", "i", "r", "o">>,
        name |-> <<"R", "i", "o", " ", "d", "e", " ", "J", "a", "n", "e", "i", "r", "o">>],
       [key |-> <<"b", "h">>,
        name |-> <<"B", "e", "l", "o", " ", "H", "o", "r", "i", "z", "o", "n", "t", "e">>],
       [key |-> <<"b", "e", "l", "o", " ", "h", "o", "r", "i", "z", "o", "n", "t", "e">>,
        name |-> <<"B", "e", "l", "o", " ", "H", "o", "r", "i", "z", "o", "n", "t", "e">>],
       [key |-> <<"d", "f">>,
        name |-> <<"B", "r", "a", "s", "í", "l", "i", "a">>],
       [key |-> <<"b", "r", "a", "s", "í", "l", "i", "a">>,
        name |-> <<"B", "r", "a", "s", "í", "l", "i", "a">>],
       [key |-> <<"c", "u", "r", "i", "t", "i", "b", "a">>,
        name |-> <<"C", "u", "r", "i", "t", "i", "b", "a">>],
       [key |-> <<"p", "o", "r", "t", "o", " ", "a", "l", "e", "g", "r", "e">>,
        name |-> <<"P", "o", "r", "t", "o", " ", "A", "l", "e", "g", "r", "e">>],
       [key |-> <<"f", "l", "o", "r", "i", "a", "n", "ó", "p", "o", "l", "i", "s">>,
        name |-> <<"F", "l", "o", "r", "i", "a", "n", "ó", "p", "o", "l", "i", "s">>],
       [key |-> <<"s", "a", "l", "v", "a", "d", "o", "r">>,
        name |-> <<"S", "a", "l", "v", "a", "d", "o", "r">>],
       [key |-> <<"r", "e", "c", "i", "f", "e">>,
        name |-> <<"R", "e", "c", "i", "f", "e">>],
       [key |-> <<"f", "o", "r", "t", "a", "l", "e", "z", "a">>,
        name |-> <<"F", "o", "r", "t", "a", "l", "e", "z", "a">>],
       [key |-> <<"c", "a", "m", "p", "i", "n", "a", "s">>,
        name |-> <<"C", "a", "m", "p", "i", "n", "a", "s">>] >>

\* str.upper() on one character: the letters a-z
UpperOf ==
    [c \in DOMAIN LowerOf |-> c] @@ [c \in {LowerOf[u] : u \in DOMAIN LowerOf} |->
        CHOOSE u \in DOMAIN LowerOf : LowerOf[u] = c]

\* str.title() on a lower-case text: the first letter of every run of letters
\* is upper-cased
Title(s) ==
    [i \in 1..Len(s) |->
        IF s[i] \in DOMAIN UpperOf /\ (i = 1 \/ s[i - 1] \notin (WordChars \ {"0", "1", "2", "3", "4", "5", "6", "7", "8", "9", "_"}))
        THEN UpperOf[s[i]] ELSE s[i]]

\* location_map.get(location, location.title())
LocationName(location) ==
    IF \E j \in 1..Len(LOCATION_MAP) : LOCATION_MAP[j].key = location
    THEN LOCATION_MAP[CHOOSE j \in 1..Len(LOCATION_MAP) : LOCATION_MAP[j].key = location].name
    ELSE Title(location)

\* _detect_location: the display name of the first location token in the bio
DetectLocation(bio) ==
    LET bio_lower == Lower(bio) IN
    IF bio = <<>> \/ ~ContainsAny(bio_lower, HIGH_VALUE_LOCATIONS) THEN None
    ELSE Some(LocationName(HIGH_VALUE_LOCATIONS[
                 CHOOSE j \in 1..Len(HIGH_VALUE_LOCATIONS) :
                    /\ Contains(bio_lower, HIGH_VALUE_LOCATIONS[j])
                    /\ \A q \in 1..(j - 1) : ~Contains(bio_lower, HIGH_VALUE_LOCATIONS[q])]))

Min(x, y) == IF x <= y THEN x ELSE y

\* _calculate_bio_score(bio, full_name, profile), bio and full_name lower-cased
CalculateBioScore(bio, full_name) ==
    Min((IF TitleSearch(full_name \o <<" ">> \o bio) THEN 5 ELSE 0)
        + (IF IsDecisionMaker(bio, full_name) THEN 10 ELSE 0)
        + (IF ContainsAny(bio, BUSINESS_TERMS) THEN 5 ELSE 0)
        + (IF DetectLocation(bio) # None THEN 5 ELSE 0)
        + (IF DetectInterests(bio) # {} THEN 5 ELSE 0),
        30)

\* a sub-score that was computed, and a TypeError raised on the way
Points(n) == [raised |-> FALSE, points |-> n]
Raised == [raised |-> TRUE, points |-> 0]

\* _calculate_engagement_score; comparing or dividing None raises TypeError.
\* 0.5 <= f/g <= 3.0 and 0.3 <= f/g <= 5.0 are written without the division
CalculateEngagementScore(p) ==
    LET followers == Get(p, "followers_count", Some(0))
        following == Get(p, "following_count", Some(1))
        rate == Get(p, "engagement_rate", Some(0))
    IN  IF following = None \/ followers = None \/ rate = None THEN Raised
        ELSE LET f == followers[1]
                 g == following[1]
                 e == rate[1]
             IN  Points(Min(
                   (IF g > 0
                    THEN (IF 2 * f >= g /\ f <= 3 * g THEN 10
                          ELSE IF 10 * f >= 3 * g /\ f <= 5 * g THEN 5 ELSE 0)
                    ELSE 0)
                   + (IF 500 <= f /\ f <= 50000 THEN 10
                      ELSE IF 200 <= f /\ f <= 100000 THEN 5 ELSE 0)
                   + (IF e >= 5 THEN 10 ELSE IF e >= 2 THEN 7 ELSE IF e >= 1 THEN 3 ELSE 0),
                   30))

\* profile.get('is_private', False): a profile without the flag counts as public
IsPrivateDefaultFalse == FALSE

\* profile.get('is_private', True): a profile without the flag counts as private
IsPrivateDefault == TRUE

\* _calculate_profile_score; posts >= 50 raises TypeError on None
CalculateProfileScore(p) ==
    LET bio == Get(p, "bio", Some(<<>>))
        posts == Get(p, "posts_count", Some(0))
    IN  IF posts = None THEN Raised
        ELSE Points(Min(
               (IF ~TruthyFlag(Get(p, "is_private", Some(IsPrivateDefault))) THEN 10 ELSE 0)
               + (IF TruthyText(bio) /\ Len(bio[1]) > 10 THEN 5 ELSE 0)
               + (IF posts[1] >= 50 THEN 5 ELSE IF posts[1] >= 20 THEN 3 ELSE 0)
               + (IF TruthyFlag(Get(p, "is_business", Some(FALSE))) THEN 5
                  ELSE IF TruthyText(Get(p, "category", None)) THEN 3 ELSE 0),
               25))

\* _calculate_recency_score with the test len(recent_posts) > 3
CalculateRecencyScoreMoreThanThree(p) ==
    LET recent == Get(p, "recent_posts", Some(0))
        frequency == OrEmpty(Get(p, "posting_frequency", None))
    IN  Min((IF TruthyList(recent) /\ recent[1] > 3 THEN 10
             ELSE IF TruthyList(recent) THEN 5 ELSE 0)
            + (IF Contains(frequency, <<"m", "u", "i", "t", "o", " ", "a", "t", "i", "v", "o">>)
                  \/ Contains(frequency, <<"a", "t", "i", "v", "o">>)
               THEN 5 ELSE 0),
            15)

\* _calculate_recency_score; recent_posts is held by its length
CalculateRecencyScore(p) ==
    LET recent == Get(p, "recent_posts", Some(0))
        frequency == OrEmpty(Get(p, "posting_frequency", None))
    IN  Min((IF TruthyList(recent) /\ recent[1] >= 3 THEN 10
             ELSE IF TruthyList(recent) THEN 5 ELSE 0)
            + (IF Contains(frequency, <<"m", "u", "i", "t", "o", " ", "a", "t", "i", "v", "o">>)
                  \/ Contains(frequency, <<"a", "t", "i", "v", "o">>)
               THEN 5 ELSE 0),
            15)

\* _determine_priority with the hot threshold written > instead of >=
DeterminePriorityOffByOne(total) ==
    IF total > 70 THEN "hot"
    ELSE IF total >= 50 THEN "warm"
    ELSE IF total >= 40 THEN "cold"
    ELSE "nurturing"

\* _determine_priority
DeterminePriority(total) ==
    IF total >= 70 THEN "hot"
    ELSE IF total >= 50 THEN "warm"
    ELSE IF total >= 40 THEN "cold"
    ELSE "nurturing"

\* _recommend_template
RecommendTemplate(total) ==
    IF total >= 70 THEN "ultra_personalized"
    ELSE IF total >= 50 THEN "personalized"
    ELSE "standard"

\* the total that leaves the recency sub-score out
TotalWithoutRecency(b, e, c, r) == b + e + c

\* score.total_score = bio_score + engagement_score + profile_score + recency_score
TotalScore(b, e, c, r) == b + e + c + r

\* calculate_score: the LeadScore, or the TypeError a sub-score raised
CalculateScore(p) ==
    LET bio == Lower(OrEmpty(Get(p, "bio", None)))
        full_name == Lower(OrEmpty(Get(p, "full_name", None)))
        bio_score == CalculateBioScore(bio, full_name)
        engagement == CalculateEngagementScore(p)
        prof == CalculateProfileScore(p)
        recency_score == CalculateRecencyScore(p)
        total == TotalScore(bio_score, engagement.points, prof.points, recency_score)
    IN  IF engagement.raised \/ prof.raised
        THEN [raised |-> TRUE]
        ELSE [raised |-> FALSE,
              total_score |-> total,
              priority |-> DeterminePriority(total),
              bio_score |-> bio_score,
              engagement_score |-> engagement.points,
              profile_score |-> prof.points,
              recency_score |-> recency_score,
              detected_profession |-> DetectProfession(bio, full_name),
              detected_interests |-> DetectInterests(bio),
              detected_location |-> DetectLocation(bio),
              is_decision_maker |-> IsDecisionMaker(bio, full_name),
              recommended_template |-> RecommendTemplate(total)]

(***************************************************************************)
(* Personalization hooks of the message generator.                         *)
(***************************************************************************)

\* the dict specialties of _generate_bio_hook, in its order
SPECIALTIES ==
    <<
       [keyword |-> <<"l", "o", "n", "g", "e", "v", "i", "d", "a", "d", "e">>,
        hook |-> <<"V", "i", " ", "s", "e", "u", " ", "f", "o", "c", "o", " ", "e", "m", " ", "l", "o", "n", "g", "e", "v", "i", "d", "a", "d", "e", ".">>],
       [keyword |-> <<"e", "m", "a", "g", "r", "e", "c", "i", "m", "e", "n", "t", "o">>,
        hook |-> <<"N", "o", "t", "e", "i", " ", "s", "e", "u", " ", "t", "r", "a", "b", "a", "l", "h", "o", " ", "c", "o", "m", " ", "e", "m", "a", "g", "r", "e", "c", "i", "m", "e", "n", "t", "o", ".">>],
       [keyword |-> <<"h", "a", "r", "m", "o", "n", "i", "z", "a", "ç", "ã", "o">>,
        hook |-> <<"C", "u", "r", "t", "i", " ", "s", "e", "u", " ", "t", "r", "a", "b", "a", "l", "h", "o", " ", "c", "o", "m", " ", "h", "a", "r", "m", "o", "n", "i", "z", "a", "ç", "ã", "o", ".">>],
       [keyword |-> <<"e", "s", "t", "é", "t", "i", "c", "a">>,
        hook |-> <<"V", "i", " ", "s", "e", "u", "s", " ", "r", "e", "s", "u", "l", "t", "a", "d", "o", "s", " ", "c", "o", "m", " ", "e", "s", "t", "é", "t", "i", "c", "a", ".">>],
       [keyword |-> <<"b", "o", "t", "o", "x">>,
        hook |-> <<"N", "o", "t", "e", "i", " ", "s", "e", "u", " ", "t", "r", "a", "b", "a", "l", "h", "o", " ", "c", "o", "m", " ", "p", "r", "o", "c", "e", "d", "i", "m", "e", "n", "t", "o", "s", ".">>],
       [keyword |-> <<"i", "m", "p", "l", "a", "n", "t", "e">>,
        hook |-> <<"V", "i", " ", "q", "u", "e", " ", "v", "o", "c", "ê", " ", "t", "r", "a", "b", "a", "l", "h", "a", " ", "c", "o", "m", " ", "i", "m", "p", "l", "a", "n", "t", "e", "s", ".">>],
       [keyword |-> <<"o", "r", "t", "o", "d", "o", "n", "t", "i", "a">>,
        hook |-> <<"N", "o", "t", "e", "i", " ", "s", "e", "u", " ", "t", "r", "a", "b", "a", "l", "h", "o", " ", "c", "o", "m", " ", "o", "r", "t", "o", "d", "o", "n", "t", "i", "a", ".">>],
       [keyword |-> <<"p", "e", "r", "s", "o", "n", "a", "l">>,
        hook |-> <<"V", "i", " ", "s", "e", "u", " ", "t", "r", "a", "b", "a", "l", "h", "o", " ", "c", "o", "m", "o", " ", "p", "e", "r", "s", "o", "n", "a", "l", ".">>],
       [keyword |-> <<"c", "r", "o", "s", "s", "f", "i", "t">>,
        hook |-> <<"N", "o", "t", "e", "i", " ", "q", "u", "e", " ", "v", "o", "c", "ê", " ", "é", " ", "d", "e", " ", "c", "r", "o", "s", "s", "f", "i", "t", ".">>],
       [keyword |-> <<"p", "i", "l", "a", "t", "e", "s">>,
        hook |-> <<"V", "i", " ", "s", "e", "u", " ", "t", "r", "a", "b", "a", "l", "h", "o", " ", "c", "o", "m", " ", "p", "i", "l", "a", "t", "e", "s", ".">>],
       [keyword |-> <<"y", "o", "g", "a">>,
        hook |-> <<"N", "o", "t", "e", "i", " ", "s", "e", "u", " ", "t", "r", "a", "b", "a", "l", "h", "o", " ", "c", "o", "m", " ", "y", "o", "g", "a", ".">>],
       [keyword |-> <<"c", "o", "a", "c", "h", "i", "n", "g">>,
        hook |-> <<"V", "i", " ", "q", "u", "e", " ", "v", "o", "c", "ê", " ", "f", "a", "z", " ", "c", "o", "a", "c", "h", "i", "n", "g", ".">>],
       [keyword |-> <<"m", "e", "n", "t", "o", "r", "i", "a">>,
        hook |-> <<"N", "o", "t", "e", "i", " ", "q", "u", "e", " ", "v", "o", "c", "ê", " ", "f", "a", "z", " ", "m", "e", "n", "t", "o", "r", "i", "a", ".">>],
       [keyword |-> <<"c", "o", "n", "s", "u", "l", "t", "o", "r", "i", "a">>,
        hook |-> <<"V", "i", " ", "q", "u", "e", " ", "v", "o", "c", "ê", " ", "f", "a", "z", " ", "c", "o", "n", "s", "u", "l", "t", "o", "r", "i", "a", ".">>],
       [keyword |-> <<"d", "e", "r", "m", "a", "t", "o", "l", "o", "g", "i", "a">>,
        hook |-> <<"N", "o", "t", "e", "i", " ", "s", "u", "a", " ", "e", "s", "p", "e", "c", "i", "a", "l", "i", "d", "a", "d", "e", " ", "e", "m", " ", "d", "e", "r", "m", "a", "t", "o", ".">>],
       [keyword |-> <<"c", "a", "r", "d", "i", "o", "l", "o", "g", "i", "a">>,
        hook |-> <<"V", "i", " ", "q", "u", "e", " ", "v", "o", "c", "ê", " ", "é", " ", "c", "a", "r", "d", "i", "o", "l", "o", "g", "i", "s", "t", "a", ".">>],
       [keyword |-> <<"o", "r", "t", "o", "p", "e", "d", "i", "a">>,
        hook |-> <<"N", "o", "t", "e", "i", " ", "q", "u", "e", " ", "v", "o", "c", "ê", " ", "é", " ", "o", "r", "t", "o", "p", "e", "d", "i", "s", "t", "a", ".">>],
       [keyword |-> <<"g", "i", "n", "e", "c", "o", "l", "o", "g", "i", "a">>,
        hook |-> <<"V", "i", " ", "s", "u", "a", " ", "e", "s", "p", "e", "c", "i", "a", "l", "i", "d", "a", "d", "e", ".">>],
       [keyword |-> <<"p", "e", "d", "i", "a", "t", "r", "i", "a">>,
        hook |-> <<"N", "o", "t", "e", "i", " ", "q", "u", "e", " ", "v", "o", "c", "ê", " ", "a", "t", "e", "n", "d", "e", " ", "c", "r", "i", "a", "n", "ç", "a", "s", ".">>],
       [keyword |-> <<"p", "s", "i", "q", "u", "i", "a", "t", "r", "i", "a">>,
        hook |-> <<"V", "i", " ", "s", "e", "u", " ", "t", "r", "a", "b", "a", "l", "h", "o", " ", "c", "o", "m", " ", "p", "s", "i", "q", "u", "i", "a", "t", "r", "i", "a", ".">>],
       [keyword |-> <<"n", "u", "t", "r", "o", "l", "o", "g", "i", "a">>,
        hook |-> <<"N", "o", "t", "e", "i", " ", "s", "e", "u", " ", "t", "r", "a", "b", "a", "l", "h", "o", " ", "c", "o", "m", " ", "n", "u", "t", "r", "o", "l", "o", "g", "i", "a", ".">>],
       [keyword |-> <<"e", "n", "d", "o", "c", "r", "i", "n", "o">>,
        hook |-> <<"V", "i", " ", "q", "u", "e", " ", "v", "o", "c", "ê", " ", "é", " ", "e", "n", "d", "ó", "c", "r", "i", "n", "o", ".">>],
       [keyword |-> <<"i", "n", "t", "e", "g", "r", "a", "t", "i", "v", "a">>,
        hook |-> <<"N", "o", "t", "e", "i", " ", "s", "e", "u", " ", "f", "o", "c", "o", " ", "e", "m", " ", "m", "e", "d", "i", "c", "i", "n", "a", " ", "i", "n", "t", "e", "g", "r", "a", "t", "i", "v", "a", ".">>],
       [keyword |-> <<"f", "u", "n", "c", "i", "o", "n", "a", "l">>,
        hook |-> <<"V", "i", " ", "s", "e", "u", " ", "t", "r", "a", "b", "a", "l", "h", "o", " ", "c", "o", "m", " ", "m", "e", "d", "i", "c", "i", "n", "a", " ", "f", "u", "n", "c", "i", "o", "n", "a", "l", ".">>],
       [keyword |-> <<"c", "l", "í", "n", "i", "c", "a">>,
        hook |-> <<"N", "o", "t", "e", "i", " ", "s", "u", "a", " ", "c", "l", "í", "n", "i", "c", "a", ".">>],
       [keyword |-> <<"c", "o", "n", "s", "u", "l", "t", "ó", "r", "i", "o">>,
        hook |-> <<"V", "i", " ", "q", "u", "e", " ", "v", "o", "c", "ê", " ", "t", "e", "m", " ", "c", "o", "n", "s", "u", "l", "t", "ó", "r", "i", "o", " ", "p", "r", "ó", "p", "r", "i", "o", ".">>] >>

\* the separators tried by _generate_bio_hook, in their order; a character
\* outside Latin-1 is written by its code point
SEPARATORS ==
    <<"|", "U+1F4CD", "U+2022", "U+1F539", "U+2728", "\n">>

\* MessageGenerator.PROFESSION_HOOKS
PROFESSION_HOOKS ==
    <<
       [name |-> "médico",
        hooks |-> << <<"N", "o", "t", "e", "i", " ", "q", "u", "e", " ", "v", "o", "c", "ê", " ", "a", "t", "e", "n", "d", "e", " ", "p", "a", "r", "t", "i", "c", "u", "l", "a", "r", ".">>,
                   <<"V", "i", " ", "q", "u", "e", " ", "v", "o", "c", "ê", " ", "é", " ", "d", "a", " ", "á", "r", "e", "a", " ", "d", "e", " ", "s", "a", "ú", "d", "e", ".">>,
                   <<"S", "e", "i", " ", "c", "o", "m", "o", " ", "é", " ", "c", "o", "r", "r", "i", "d", "a", " ", "a", " ", "r", "o", "t", "i", "n", "a", " ", "d", "e", " ", "c", "o", "n", "s", "u", "l", "t", "ó", "r", "i", "o", ".">> >>],
       [name |-> "dentista",
        hooks |-> << <<"V", "i", " ", "q", "u", "e", " ", "v", "o", "c", "ê", " ", "t", "r", "a", "b", "a", "l", "h", "a", " ", "c", "o", "m", " ", "e", "s", "t", "é", "t", "i", "c", "a", " ", "d", "e", "n", "t", "a", "l", ".">>,
                   <<"N", "o", "t", "e", "i", " ", "s", "e", "u", " ", "t", "r", "a", "b", "a", "l", "h", "o", " ", "c", "o", "m", " ", "h", "a", "r", "m", "o", "n", "i", "z", "a", "ç", "ã", "o", ".">>,
                   <<"C", "u", "r", "t", "i", " ", "o", "s", " ", "r", "e", "s", "u", "l", "t", "a", "d", "o", "s", " ", "q", "u", "e", " ", "v", "o", "c", "ê", " ", "p", "o", "s", "t", "a", ".">> >>],
       [name |-> "advogado",
        hooks |-> << <<"V", "i", " ", "q", "u", "e", " ", "v", "o", "c", "ê", " ", "a", "t", "u", "a", " ", "n", "a", " ", "á", "r", "e", "a", " ", "j", "u", "r", "í", "d", "i", "c", "a", ".">>,
                   <<"N", "o", "t", "e", "i", " ", "s", "u", "a", " ", "e", "s", "p", "e", "c", "i", "a", "l", "i", "d", "a", "d", "e", ".">>,
                   <<"I", "n", "t", "e", "r", "e", "s", "s", "a", "n", "t", "e", " ", "s", "e", "u", " ", "p", "o", "s", "i", "c", "i", "o", "n", "a", "m", "e", "n", "t", "o", " ", "a", "q", "u", "i", ".">> >>],
       [name |-> "empresário",
        hooks |-> << <<"V", "i", " ", "q", "u", "e", " ", "v", "o", "c", "ê", " ", "e", "m", "p", "r", "e", "e", "n", "d", "e", ".">>,
                   <<"N", "o", "t", "e", "i", " ", "s", "e", "u", " ", "n", "e", "g", "ó", "c", "i", "o", ".">>,
                   <<"C", "u", "r", "t", "i", " ", "a", " ", "p", "r", "o", "p", "o", "s", "t", "a", " ", "d", "a", " ", "s", "u", "a", " ", "e", "m", "p", "r", "e", "s", "a", ".">> >>],
       [name |-> "coach",
        hooks |-> << <<"V", "i", " ", "s", "e", "u", " ", "t", "r", "a", "b", "a", "l", "h", "o", " ", "c", "o", "m", " ", "d", "e", "s", "e", "n", "v", "o", "l", "v", "i", "m", "e", "n", "t", "o", " ", "p", "e", "s", "s", "o", "a", "l", ".">>,
                   <<"N", "o", "t", "e", "i", " ", "s", "u", "a", " ", "m", "e", "t", "o", "d", "o", "l", "o", "g", "i", "a", ".">>,
                   <<"C", "u", "r", "t", "i", " ", "s", "u", "a", " ", "a", "b", "o", "r", "d", "a", "g", "e", "m", ".">> >>],
       [name |-> "consultor",
        hooks |-> << <<"V", "i", " ", "q", "u", "e", " ", "v", "o", "c", "ê", " ", "f", "a", "z", " ", "c", "o", "n", "s", "u", "l", "t", "o", "r", "i", "a", ".">>,
                   <<"N", "o", "t", "e", "i", " ", "s", "u", "a", " ", "á", "r", "e", "a", " ", "d", "e", " ", "a", "t", "u", "a", "ç", "ã", "o", ".">>,
                   <<"I", "n", "t", "e", "r", "e", "s", "s", "a", "n", "t", "e", " ", "s", "e", "u", " ", "n", "i", "c", "h", "o", ".">> >>],
       [name |-> "nutricionista",
        hooks |-> << <<"V", "i", " ", "s", "e", "u", " ", "t", "r", "a", "b", "a", "l", "h", "o", " ", "c", "o", "m", " ", "n", "u", "t", "r", "i", "ç", "ã", "o", ".">>,
                   <<"N", "o", "t", "e", "i", " ", "s", "u", "a", " ", "e", "s", "p", "e", "c", "i", "a", "l", "i", "d", "a", "d", "e", ".">>,
                   <<"C", "u", "r", "t", "i", " ", "s", "e", "u", " ", "c", "o", "n", "t", "e", "ú", "d", "o", " ", "s", "o", "b", "r", "e", " ", "a", "l", "i", "m", "e", "n", "t", "a", "ç", "ã", "o", ".">> >>],
       [name |-> "psicólogo",
        hooks |-> << <<"V", "i", " ", "s", "e", "u", " ", "t", "r", "a", "b", "a", "l", "h", "o", " ", "c", "o", "m", " ", "s", "a", "ú", "d", "e", " ", "m", "e", "n", "t", "a", "l", ".">>,
                   <<"N", "o", "t", "e", "i", " ", "s", "u", "a", " ", "a", "b", "o", "r", "d", "a", "g", "e", "m", " ", "t", "e", "r", "a", "p", "ê", "u", "t", "i", "c", "a", ".">>,
                   <<"C", "u", "r", "t", "i", " ", "s", "e", "u", " ", "c", "o", "n", "t", "e", "ú", "d", "o", ".">> >>],
       [name |-> "marketing",
        hooks |-> << <<"V", "i", " ", "q", "u", "e", " ", "v", "o", "c", "ê", " ", "é", " ", "d", "a", " ", "á", "r", "e", "a", " ", "d", "e", " ", "m", "a", "r", "k", "e", "t", "i", "n", "g", ".">>,
                   <<"N", "o", "t", "e", "i", " ", "s", "e", "u", " ", "t", "r", "a", "b", "a", "l", "h", "o", " ", "c", "o", "m", " ", "g", "r", "o", "w", "t", "h", ".">>,
                   <<"C", "u", "r", "t", "i", " ", "s", "u", "a", "s", " ", "e", "s", "t", "r", "a", "t", "é", "g", "i", "a", "s", ".">> >>],
       [name |-> "estetica",
        hooks |-> << <<"V", "i", " ", "s", "e", "u", " ", "t", "r", "a", "b", "a", "l", "h", "o", " ", "c", "o", "m", " ", "e", "s", "t", "é", "t", "i", "c", "a", ".">>,
                   <<"N", "o", "t", "e", "i", " ", "s", "e", "u", "s", " ", "r", "e", "s", "u", "l", "t", "a", "d", "o", "s", ".">>,
                   <<"C", "u", "r", "t", "i", " ", "o", "s", " ", "a", "n", "t", "e", "s", " ", "e", " ", "d", "e", "p", "o", "i", "s", ".">> >>],
       [name |-> "fisioterapeuta",
        hooks |-> << <<"V", "i", " ", "s", "e", "u", " ", "t", "r", "a", "b", "a", "l", "h", "o", " ", "c", "o", "m", " ", "f", "i", "s", "i", "o", "t", "e", "r", "a", "p", "i", "a", ".">>,
                   <<"N", "o", "t", "e", "i", " ", "s", "u", "a", " ", "e", "s", "p", "e", "c", "i", "a", "l", "i", "d", "a", "d", "e", ".">>,
                   <<"C", "u", "r", "t", "i", " ", "s", "u", "a", " ", "a", "b", "o", "r", "d", "a", "g", "e", "m", ".">> >>],
       [name |-> "personal",
        hooks |-> << <<"V", "i", " ", "s", "e", "u", " ", "t", "r", "a", "b", "a", "l", "h", "o", " ", "c", "o", "m", "o", " ", "p", "e", "r", "s", "o", "n", "a", "l", ".">>,
                   <<"N", "o", "t", "e", "i", " ", "s", "e", "u", "s", " ", "r", "e", "s", "u", "l", "t", "a", "d", "o", "s", " ", "c", "o", "m", " ", "a", "l", "u", "n", "o", "s", ".">>,
                   <<"C", "u", "r", "t", "i", " ", "s", "u", "a", " ", "m", "e", "t", "o", "d", "o", "l", "o", "g", "i", "a", ".">> >>] >>

\* MessageGenerator.INTEREST_HOOKS
INTEREST_HOOKS ==
    <<
       [name |-> "marketing",
        hook |-> <<"N", "o", "t", "e", "i", " ", "q", "u", "e", " ", "v", "o", "c", "ê", " ", "m", "a", "n", "j", "a", " ", "d", "e", " ", "m", "a", "r", "k", "e", "t", "i", "n", "g", ".">>],
       [name |-> "tecnologia",
        hook |-> <<"V", "i", " ", "q", "u", "e", " ", "v", "o", "c", "ê", " ", "c", "u", "r", "t", "e", " ", "t", "e", "c", "n", "o", "l", "o", "g", "i", "a", ".">>],
       [name |-> "negocios",
        hook |-> <<"N", "o", "t", "e", "i", " ", "s", "e", "u", " ", "f", "o", "c", "o", " ", "e", "m", " ", "n", "e", "g", "ó", "c", "i", "o", "s", ".">>],
       [name |-> "estetica",
        hook |-> <<"V", "i", " ", "q", "u", "e", " ", "v", "o", "c", "ê", " ", "é", " ", "d", "a", " ", "á", "r", "e", "a", " ", "d", "e", " ", "e", "s", "t", "é", "t", "i", "c", "a", ".">>],
       [name |-> "saude",
        hook |-> <<"N", "o", "t", "e", "i", " ", "q", "u", "e", " ", "v", "o", "c", "ê", " ", "é", " ", "d", "a", " ", "á", "r", "e", "a", " ", "d", "e", " ", "s", "a", "ú", "d", "e", ".">>],
       [name |-> "financas",
        hook |-> <<"V", "i", " ", "q", "u", "e", " ", "v", "o", "c", "ê", " ", "t", "r", "a", "b", "a", "l", "h", "a", " ", "c", "o", "m", " ", "f", "i", "n", "a", "n", "ç", "a", "s", ".">>],
       [name |-> "educacao",
        hook |-> <<"N", "o", "t", "e", "i", " ", "s", "e", "u", " ", "t", "r", "a", "b", "a", "l", "h", "o", " ", "c", "o", "m", " ", "e", "d", "u", "c", "a", "ç", "ã", "o", ".">>],
       [name |-> "fitness",
        hook |-> <<"V", "i", " ", "s", "e", "u", " ", "t", "r", "a", "b", "a", "l", "h", "o", " ", "c", "o", "m", " ", "f", "i", "t", "n", "e", "s", "s", ".">>],
       [name |-> "beleza",
        hook |-> <<"N", "o", "t", "e", "i", " ", "s", "e", "u", " ", "t", "r", "a", "b", "a", "l", "h", "o", " ", "c", "o", "m", " ", "b", "e", "l", "e", "z", "a", ".">>],
       [name |-> "longevidade",
        hook |-> <<"V", "i", " ", "s", "e", "u", " ", "f", "o", "c", "o", " ", "e", "m", " ", "l", "o", "n", "g", "e", "v", "i", "d", "a", "d", "e", ".">>],
       [name |-> "bem-estar",
        hook |-> <<"N", "o", "t", "e", "i", " ", "s", "e", "u", " ", "t", "r", "a", "b", "a", "l", "h", "o", " ", "c", "o", "m", " ", "b", "e", "m", "-", "e", "s", "t", "a", "r", ".">>] >>

\* "Vi que você trabalha com " of the f-string of _generate_bio_hook
HookPrefix ==
    <<"V", "i", " ", "q", "u", "e", " ", "v", "o", "c", "ê", " ", "t", "r", "a", "b", "a", "l",
      "h", "a", " ", "c", "o", "m", " ">>

\* for keyword, hook in specialties.items(): the hook of the first keyword found
\* in bio_lower, then break
SpecialtyHooks(bio_lower) ==
    LET r == IF \E q \in 1..Len(SPECIALTIES) : Contains(bio_lower, SPECIALTIES[q].keyword)
             THEN CHOOSE q \in 1..Len(SPECIALTIES) :
                     /\ Contains(bio_lower, SPECIALTIES[q].keyword)
                     /\ \A o \in 1..(q - 1) : ~Contains(bio_lower, SPECIALTIES[o].keyword)
             ELSE 0
    IN  IF r = 0 THEN <<>> ELSE <<SPECIALTIES[r].hook>>

\* separator in bio, for a separator of one character
HasSeparator(bio, separator) == \E i \in 1..Len(bio) : bio[i] = separator

\* bio.split(separator)[0], for a separator that is in bio
SplitFirst(bio, separator) ==
    LET i == CHOOSE k \in 1..Len(bio) :
                 bio[k] = separator /\ \A j \in 1..(k - 1) : bio[j] # separator
    IN  SubSeq(bio, 1, i - 1)

\* _generate_bio_hook without the loop over the separators
FirstPartHooksNever(bio, k) == <<>>

\* the loop over the separators, from the k-th on: the first separator found in
\* the bio whose first part has more than 10 and fewer than 50 characters gives
\* the hook, then break
RECURSIVE FirstPartHooks(_, _)
FirstPartHooks(bio, k) ==
    IF k > Len(SEPARATORS) THEN <<>>
    ELSE IF HasSeparator(bio, SEPARATORS[k])
            /\ 10 < Len(Strip(SplitFirst(bio, SEPARATORS[k])))
            /\ Len(Strip(SplitFirst(bio, SEPARATORS[k]))) < 50
         THEN <<HookPrefix \o Lower(Strip(SplitFirst(bio, SEPARATORS[k]))) \o <<".">>>>
         ELSE FirstPartHooks(bio, k + 1)

\* self.PROFESSION_HOOKS[profession] when profession is set and is a key
ProfessionHooks(profession) ==
    IF profession # None /\ \E r \in 1..Len(PROFESSION_HOOKS) : PROFESSION_HOOKS[r].name = profession[1]
    THEN (CHOOSE r \in 1..Len(PROFESSION_HOOKS) : PROFESSION_HOOKS[r].name = profession[1])
    ELSE 0

\* the list hooks of _generate_bio_hook before the choice, as the set of its members
BioHooks(bio, profession, interests) ==
    LET specific ==
            IF bio # None /\ bio[1] # <<>> /\ Len(bio[1]) > 10
            THEN (IF SpecialtyHooks(Lower(bio[1])) # <<>>
                  THEN SpecialtyHooks(Lower(bio[1]))
                  ELSE FirstPartHooks(bio[1], 1))
            ELSE <<>>
        r == ProfessionHooks(profession)
    IN  IF specific # <<>> THEN {specific[1]}
        ELSE IF r # 0 THEN {PROFESSION_HOOKS[r].hooks[i] : i \in 1..Len(PROFESSION_HOOKS[r].hooks)}
        ELSE {INTEREST_HOOKS[i].hook :
                 i \in {j \in 1..Len(INTEREST_HOOKS) : INTEREST_HOOKS[j].name \in interests}}

\* random.choice(hooks) if hooks else "": every value the call can return
GenerateBioHook(bio, profession, interests) ==
    IF BioHooks(bio, profession, interests) = {} THEN {<<>>}
    ELSE BioHooks(bio, profession, interests)

\* bio = profile.get('bio', '')
BioOf(p) == Get(p, "bio", Some(<<>>))

(***************************************************************************)
(* Lead Scoring Engine and the template tier: state and operations.        *)
(***************************************************************************)

\* profiles in which every key is absent or holds the empty, zero or false
\* value of its type (bio also null)
EmptyProfiles ==
    [full_name : {Absent, Some(<<>>)},
     bio : {Absent, None, Some(<<>>)},
     followers_count : {Absent, Some(0)},
     following_count : {Absent, Some(0)},
     posts_count : {Absent, Some(0)},
     engagement_rate : {Absent, Some(0)},
     is_private : {Absent, Some(FALSE)},
     is_business : {Absent, Some(FALSE)},
     category : {Absent, Some(<<>>)},
     recent_posts : {Absent, Some(0)},
     posting_frequency : {Absent, Some(<<>>)}]

\* profiles whose keys are absent or present with the value None
NullProfiles ==
    [full_name : {Absent, None},
     bio : {Absent, None},
     followers_count : {Absent, None},
     following_count : {Absent, None},
     posts_count : {Absent, None},
     engagement_rate : {Absent, None},
     is_private : {Absent, None},
     is_business : {Absent},
     category : {Absent},
     recent_posts : {Absent, None},
     posting_frequency : {Absent, None}]

\* profiles of scraped accounts: a bio, follower counts and activity
FilledProfiles ==
    [full_name : {Absent, Some(NameDra)},
     bio : {Some(BioCeo), Some(BioPlain), Some(BioRich)},
     followers_count : {Some(1000), Some(150000)},
     following_count : {Absent, Some(1000)},
     posts_count : {Some(20), Some(120)},
     engagement_rate : {Absent, Some(5)},
     is_private : {Absent, Some(FALSE)},
     is_business : {Absent, Some(TRUE)},
     category : {Absent, Some(<<"x">>)},
     recent_posts : {Absent, Some(1), Some(3)},
     posting_frequency : {Absent, Some(FreqActive)}]

\* profiles that differ in their bio alone
BioProfiles ==
    [full_name : {Absent},
     bio : {Some(BioMedicina), Some(BioAdvogada), Some(BioYoga), Some(BioHarmonizacao),
            Some(BioTecnologia), Some(BioTwoSeparators)},
     followers_count : {Some(1000)},
     following_count : {Absent},
     posts_count : {Some(20)},
     engagement_rate : {Absent},
     is_private : {Absent},
     is_business : {Absent},
     category : {Absent},
     recent_posts : {Absent},
     posting_frequency : {Absent}]

\* the profiles handed to calculate_score
Profiles == EmptyProfiles \cup NullProfiles \cup FilledProfiles \cup BioProfiles

InitLS ==
    /\ profile = None
    /\ score = None
    /\ composed = [template |-> None, hybrid |-> None,
                   bio_hook |-> None, hybrid_bio_hook |-> None]

\* score = scorer.calculate_score(profile)
ComputeScore(p) ==
    /\ profile = None
    /\ profile' = Some(p)
    /\ score' = Some(CalculateScore(p))
    /\ UNCHANGED composed
    /\ UNCHANGED <<amVars, rlVars, statsOut, sxVars, cpVars>>

\* generate: the personalization level from total_score and detected_profession
GenerateLevel(score_data) ==
    IF score_data.total_score >= 70 /\ score_data.detected_profession # None THEN "ultra"
    ELSE IF score_data.total_score >= 50 THEN "high"
    ELSE "medium"

\* generate_hybrid: the level from total_score alone
HybridLevel(score_data) ==
    IF score_data.total_score >= 70 THEN "ultra"
    ELSE IF score_data.total_score >= 50 THEN "high"
    ELSE "medium"

\* generator.generate(profile, score_data), score_data taken from the LeadScore
Generate ==
    /\ score # None
    /\ ~score[1].raised
    /\ composed.template = None
    /\ \E hook \in GenerateBioHook(BioOf(profile[1]), score[1].detected_profession,
                                    score[1].detected_interests) :
          composed' = [composed EXCEPT !.template = Some(GenerateLevel(score[1])),
                                       !.bio_hook = Some(hook)]
    /\ UNCHANGED <<profile, score>>
    /\ UNCHANGED <<amVars, rlVars, statsOut, sxVars, cpVars>>

\* generator.generate_hybrid(profile, score_data)
GenerateHybrid ==
    /\ score # None
    /\ ~score[1].raised
    /\ composed.hybrid = None
    /\ \E hook \in GenerateBioHook(BioOf(profile[1]), score[1].detected_profession,
                                    score[1].detected_interests) :
          composed' = [composed EXCEPT !.hybrid = Some(HybridLevel(score[1])),
                                       !.hybrid_bio_hook = Some(hook)]
    /\ UNCHANGED <<profile, score>>
    /\ UNCHANGED <<amVars, rlVars, statsOut, sxVars, cpVars>>

(***************************************************************************)
(* Spintax Expansion Engine.                                               *)
(***************************************************************************)

\* the characters of the inputs tried
SpinAlphabet == {"a", "{", "}", "|", " "}

\* every text of at most n characters
TextsUpTo(n) == UNION {[1..k -> SpinAlphabet] : k \in 0..n}

\* n times the character c
Repeat(c, n) == [i \in 1..n |-> c]

\* "{a|b}", "{a|{b|c}}" and "plain text"
FlatGroup == <<"{", "a", "|", "b", "}">>
NestedGroup == <<"{", "a", "|", "{", "b", "|", "c", "}", "}">>
PlainText == <<"p", "l", "a", "i", "n", " ", "t", "e", "x", "t">>

\* the text a nested d levels deep: d opening braces, a, d closing braces
Nest(d) == Repeat("{", d) \o <<"a">> \o Repeat("}", d)

\* the texts expand_spintax is called with
SpinInputs ==
    TextsUpTo(MaxSpinLen)
    \cup {FlatGroup, NestedGroup, PlainText, Nest(MaxIterations), Nest(MaxIterations + 1)}

IsBrace(c) == c = "{" \/ c = "}"

\* the position of the first brace after position p (0: none)
NextBrace(s, p) ==
    IF \E j \in (p + 1)..Len(s) : IsBrace(s[j])
    THEN CHOOSE j \in (p + 1)..Len(s) :
            IsBrace(s[j]) /\ \A k \in (p + 1)..(j - 1) : ~IsBrace(s[k])
    ELSE 0

\* the pattern \{([^{}]+)\} matches at p: an opening brace, one or more
\* characters that are no brace, a closing brace
MatchAt(s, p) ==
    /\ s[p] = "{"
    /\ NextBrace(s, p) > p + 1
    /\ s[NextBrace(s, p)] = "}"

\* the start of the leftmost match (0: none)
FirstMatch(s) ==
    IF \E p \in 1..Len(s) : MatchAt(s, p)
    THEN CHOOSE p \in 1..Len(s) : MatchAt(s, p) /\ \A k \in 1..(p - 1) : ~MatchAt(s, k)
    ELSE 0

\* re.search(pattern, text)
HasMatch(s) == FirstMatch(s) # 0

\* match.group(1).split('|'), as the set random.choice draws from
SplitOptions(c) ==
    {SubSeq(c, i, j) : <<i, j>> \in
        {ij \in (1..(Len(c) + 1)) \X (0..Len(c)) :
            /\ ij[2] >= ij[1] - 1
            /\ (ij[1] = 1 \/ c[ij[1] - 1] = "|")
            /\ (ij[2] = Len(c) \/ c[ij[2] + 1] = "|")
            /\ \A k \in ij[1]..ij[2] : c[k] # "|"}}

\* re.sub(pattern, replace_match, text): every text one pass can produce, each
\* match replaced by one of its options, stripped
RECURSIVE SubAll(_)
SubAll(s) ==
    LET p == FirstMatch(s) IN
    IF p = 0 THEN {s}
    ELSE LET q == NextBrace(s, p) IN
         {SubSeq(s, 1, p - 1) \o Strip(o) \o r :
             o \in SplitOptions(SubSeq(s, p + 1, q - 1)),
             r \in SubAll(SubSeq(s, q + 1, Len(s)))}

\* the loop test without the iteration cap
LoopGuardNoCap(text, iteration) == HasMatch(text)

\* while re.search(pattern, text) and iteration < max_iterations
LoopGuard(text, iteration) == HasMatch(text) /\ iteration < MaxIterations

\* return text.strip()
ReturnValueStripped(text) == Strip(text)

\* return text
ReturnValue(text) == text

InitSX ==
    /\ spIn = <<>>
    /\ spText = <<>>
    /\ spIter = 0
    /\ spPc = "idle"
    /\ spPrev = None

\* entry of expand_spintax(x): an empty text is returned at once
Enter(x) ==
    /\ spIn' = x
    /\ spIter' = 0
    /\ IF x = <<>>
       THEN spPc' = "done" /\ spText' = ReturnValue(x)
       ELSE spPc' = "loop" /\ spText' = x

\* expand_spintax(x) is called
ExpandCall(x) ==
    /\ spPc = "idle"
    /\ Enter(x)
    /\ UNCHANGED spPrev
    /\ UNCHANGED <<amVars, rlVars, statsOut, lsVars, cpVars>>

\* one iteration of the loop
ExpandPass ==
    /\ spPc = "loop"
    /\ LoopGuard(spText, spIter)
    /\ spText' \in SubAll(spText)
    /\ spIter' = spIter + 1
    /\ UNCHANGED <<spIn, spPc, spPrev>>
    /\ UNCHANGED <<amVars, rlVars, statsOut, lsVars, cpVars>>

\* the loop ends and the text is returned
ExpandReturn ==
    /\ spPc = "loop"
    /\ ~LoopGuard(spText, spIter)
    /\ spText' = ReturnValue(spText)
    /\ spPc' = "done"
    /\ UNCHANGED <<spIn, spIter, spPrev>>
    /\ UNCHANGED <<amVars, rlVars, statsOut, lsVars, cpVars>>

\* expand_spintax is called again on what it returned
ExpandAgain ==
    /\ spPc = "done"
    /\ spPrev = None
    /\ spPrev' = Some(spText)
    /\ Enter(spText)
    /\ UNCHANGED <<amVars, rlVars, statsOut, lsVars, cpVars>>

(***************************************************************************)
(* Sliding Window Limiter: get_stats.                                      *)
(***************************************************************************)

\* the sum of f over the set S
RECURSIVE SumOver(_, _)
SumOver(f, S) ==
    IF S = {} THEN 0
    ELSE LET x == CHOOSE y \in S : TRUE IN f[x] + SumOver(f, S \ {x})

\* per tracked client, len([t for t in times if t > window_start])
RecentCounts ==
    [c \in DOMAIN requests |-> Len(Recent(requests[c], now - WindowTicks))]

\* the dict get_stats returns
GetStatsResult ==
    [active_clients |-> Cardinality({c \in DOMAIN requests : RecentCounts[c] > 0}),
     requests_in_window |-> SumOver(RecentCounts, DOMAIN requests),
     max_requests_per_client |-> MaxRequests,
     window_seconds |-> WindowSeconds]

\* self.requests after a get_stats that purges as is_allowed does
StatsRequestsPurged ==
    [c \in DOMAIN requests |-> Recent(requests[c], now - WindowTicks)]

\* self.requests after get_stats: it only iterates over self.requests.items()
StatsRequests == requests

\* rate_limiter.get_stats()
GetStats ==
    /\ statsOut' = Some(GetStatsResult)
    /\ requests' = StatsRequests
    /\ UNCHANGED <<lock, rpc, rloc, now, hist>>
    /\ UNCHANGED <<amVars, lsVars, sxVars, cpVars>>

(***************************************************************************)
(* DM campaign of the Instagram agent.                                     *)
(***************************************************************************)

\* the answers of the store to a count query: a content-range header with the
\* count, a response without the header (an error status), a request that raises
Answers == {"count", "no_header", "raises"}

\* int(content_range.split("/")[1]) of response.headers.get("content-range", "*/0")
CountRead(count, answer) == IF answer = "count" THEN count ELSE 0

\* get_dms_sent_today and get_dms_sent_last_hour
GetDmsSentToday(answer) == CountRead(CountSince(dmLog, TodayStart(cnow)), answer)
GetDmsSentLastHour(answer) == CountRead(CountSince(dmLog, OneHourAgo(cnow)), answer)

\* check_rate_limits: can_send
CheckRateLimits(today, hour) ==
    IF GetDmsSentToday(today) >= MAX_DMS_PER_DAY THEN FALSE
    ELSE IF GetDmsSentLastHour(hour) >= MAX_DMS_PER_HOUR THEN FALSE
    ELSE TRUE

InitCP ==
    /\ dmLog = <<>>
    /\ dmAttempts = <<>>
    /\ cpc = "idle"
    /\ leads = 0
    /\ cnow = StartClock

\* run_campaign up to its loop: the first check, start_run, get_leads_to_contact
StartCampaign(n) ==
    /\ cpc \in {"idle", "done", "raised"}
    /\ Len(dmAttempts) < MaxAttempts
    /\ \E today \in Answers, hour \in Answers :
          IF "raises" \in {today, hour}
          THEN cpc' = "raised" /\ leads' = 0
          ELSE IF ~CheckRateLimits(today, hour) \/ n = 0
          THEN cpc' = "done" /\ leads' = 0
          ELSE cpc' = "check" /\ leads' = n
    /\ UNCHANGED <<dmLog, dmAttempts, cnow>>
    /\ UNCHANGED <<amVars, rlVars, statsOut, lsVars, sxVars>>

\* the head of the loop: check_rate_limits before each DM; a failed check breaks,
\* a check that raises ends the run with status error
CheckBeforeDm ==
    /\ cpc = "check"
    /\ \E today \in Answers, hour \in Answers :
          IF "raises" \in {today, hour}
          THEN cpc' = "raised" /\ leads' = 0
          ELSE IF ~CheckRateLimits(today, hour)
          THEN cpc' = "done" /\ leads' = 0
          ELSE cpc' = "send" /\ UNCHANGED leads
    /\ UNCHANGED <<dmLog, dmAttempts, cnow>>
    /\ UNCHANGED <<amVars, rlVars, statsOut, lsVars, sxVars>>

\* result = await self.send_dm(lead, message): the attempt, delivered or not
SendDm ==
    /\ cpc = "send"
    /\ Len(dmAttempts) < MaxAttempts
    /\ dmAttempts' = Append(dmAttempts, cnow)
    /\ cpc' = "record"
    /\ UNCHANGED <<dmLog, leads, cnow>>
    /\ UNCHANGED <<amVars, rlVars, statsOut, lsVars, sxVars>>

\* record_dm_sent: the row is inserted with sent_at = now, status sent or failed;
\* a failed insert raises and ends the run with status error; after the last
\* lead the loop ends, otherwise the agent sleeps and checks again
RecordDmSent ==
    /\ cpc = "record"
    /\ \E ok \in BOOLEAN :
          IF ok
          THEN /\ dmLog' = Append(dmLog, cnow)
               /\ leads' = leads - 1
               /\ cpc' = IF leads = 1 THEN "done" ELSE "check"
          ELSE /\ cpc' = "raised"
               /\ leads' = 0
               /\ UNCHANGED dmLog
    /\ UNCHANGED <<dmAttempts, cnow>>
    /\ UNCHANGED <<amVars, rlVars, statsOut, lsVars, sxVars>>

\* an hour passes
TickCP ==
    /\ cnow < EndClock
    /\ cnow' = cnow + 1
    /\ UNCHANGED <<dmLog, dmAttempts, cpc, leads>>
    /\ UNCHANGED <<amVars, rlVars, statsOut, lsVars, sxVars>>

Init == InitAM /\ InitRL /\ statsOut = None /\ InitLS /\ InitSX /\ InitCP

\* one caller runs the documented sequence select, send, record_usage, while
\* accounts are blocked and unblocked and the store fails at will
NextAM ==
    \/ \E t \in Tenants : SelectAccount(1, t)
    \/ \E c \in Callers : Send(c)
    \/ \E c \in Callers : RecordUsage(c)
    \/ \E a \in AccountIds, h \in BlockHours : MarkBlocked(a, h)
    \/ \E a \in AccountIds : Unblock(a)
    \/ Tick

\* every caller runs the documented sequence, concurrently with the others,
\* against a store that answers every lookup
NextRace ==
    \/ \E c \in Callers, t \in Tenants : SelectAccountHealthy(c, t)
    \/ \E c \in Callers : Send(c)
    \/ \E c \in Callers : RecordUsage(c)
    \/ Tick

NextRL ==
    \/ \E t \in Tasks, c \in Clients : Call(t, c)
    \/ \E t \in Tasks : Acquire(t)
    \/ \E t \in Tasks : Purge(t)
    \/ \E t \in Tasks : Count(t)
    \/ \E t \in Tasks : Decide(t)
    \/ TickRL

SpecAM == Init /\ [][NextAM]_vars

SpecRace == Init /\ [][NextRace]_vars

SpecRL == Init /\ [][NextRL]_vars

\* the calls of one client that retries after its rejections
NextRetry ==
    \/ \E t \in Tasks : Retry(t, 1)
    \/ \E t \in Tasks : Acquire(t)
    \/ \E t \in Tasks : Purge(t)
    \/ \E t \in Tasks : Count(t)
    \/ \E t \in Tasks : Decide(t)
    \/ TickRL

SpecRetry == Init /\ [][NextRetry]_vars

\* the same, the event loop running every started call to its end while time
\* passes
SpecRLFair == Init /\ [][NextRL]_vars /\ WF_vars(NextRL)

\* one is_allowed call at a time, with get_stats called at any moment
NextStats ==
    \/ \E c \in Clients : Call(1, c)
    \/ Acquire(1)
    \/ Purge(1)
    \/ Count(1)
    \/ Decide(1)
    \/ TickRL
    \/ GetStats

SpecStats == Init /\ [][NextStats]_vars

\* a profile is scored, then a message is composed in either mode
NextLS ==
    \/ \E p \in Profiles : ComputeScore(p)
    \/ Generate
    \/ GenerateHybrid

SpecLS == Init /\ [][NextLS]_vars

\* a text is expanded, and the result is expanded once more
NextSX ==
    \/ \E x \in SpinInputs : ExpandCall(x)
    \/ ExpandPass
    \/ ExpandReturn
    \/ ExpandAgain

SpecSX == Init /\ [][NextSX]_vars

\* the same, the interpreter running the call to its end
SpecSXFair == Init /\ [][NextSX]_vars /\ WF_vars(NextSX)

\* one agent runs its campaigns one after the other while time passes and the
\* store answers as it will
NextCampaign ==
    \/ \E n \in 0..MaxLeads : StartCampaign(n)
    \/ CheckBeforeDm
    \/ SendDm
    \/ RecordDmSent
    \/ TickCP

SpecCampaign == Init /\ [][NextCampaign]_vars

(***************************************************************************)
(* Properties of the Account Quota Manager.                                *)
(***************************************************************************)

\* the availability predicate of the data model, on an account object at time t
Eligible(x, t) ==
    /\ x.dms_sent_today < x.daily_limit
    /\ x.dms_sent_last_hour < x.hourly_limit
    /\ x.status = "active"
    /\ (x.blocked_until = None \/ x.blocked_until[1] <= t)

\* the account objects a call loaded, and the ids of those it kept as available
Loaded(call) == {call.accounts[i] : i \in 1..Len(call.accounts)}
AvailableIds(call) == {call.available[i].id : i \in 1..Len(call.available)}

\* the true usage of a stored account at the current time
SentToday(a) == CountSince(sendLog[a], TodayStart(clock))
SentLastHour(a) == CountSince(sendLog[a], OneHourAgo(clock))

\* C1: an account returned by get_available_account has, with the counts the call
\* computed, sent_today < daily_limit, sent_this_hour < hourly_limit, status
\* active (in the object and in the store) and blocked_until null or not after
\* now; when no loaded account satisfies this, the call returns none.
C1_ReturnedAccountAvailable ==
    last.op = "select" =>
        /\ last.result # None =>
              /\ Eligible(last.result[1], clock)
              /\ accounts[last.result[1].id].status = "active"
              /\ last.result[1] \in Loaded(last)
        /\ (\A x \in Loaded(last) : ~Eligible(x, clock)) => last.result = None

\* C1 witness: an account is returned while another loaded account has used up
\* its daily limit.
C1_Witness ==
    /\ last.op = "select"
    /\ last.result # None
    /\ \E x \in Loaded(last) : x.dms_sent_today >= x.daily_limit

\* C2: the sends made through an account never exceed its hourly_limit within
\* one hour nor its daily_limit within one day, whatever the interleaving of the
\* callers' select, send, record_usage sequences.
C2_SendsWithinLimits ==
    \A a \in AccountIds :
    \A i \in 1..Len(sendLog[a]) :
        /\ Cardinality({j \in 1..Len(sendLog[a]) : sendLog[a][j] = sendLog[a][i]})
              <= accounts[a].hourly_limit
        /\ Cardinality({j \in 1..Len(sendLog[a]) :
                           TodayStart(sendLog[a][j]) = TodayStart(sendLog[a][i])})
              <= accounts[a].daily_limit

\* C3: get_available_account never returns an account whose usage counts could
\* not be obtained.
C3_FailsClosedOnStats ==
    (last.op = "select" /\ last.result # None) => last.result[1].id \in last.statsOk

C7_BestAccount ==
    (last.op = "select" /\ last.result # None) =>
        LET r == last.result[1] IN
        \A b \in {x \in Loaded(last) : Eligible(x, clock)} :
            /\ r.daily_limit - r.dms_sent_today >= b.daily_limit - b.dms_sent_today
            /\ (r.daily_limit - r.dms_sent_today = b.daily_limit - b.dms_sent_today)
                  => \/ r.last_used_at = None
                     \/ /\ b.last_used_at # None
                        /\ r.last_used_at[1] <= b.last_used_at[1]

\* C7 witness: two available accounts with the same remaining quota, listed with
\* the used one first; the never used one is returned.
C7_Witness ==
    /\ last.op = "select"
    /\ Len(last.available) = 2
    /\ last.available[1].last_used_at # None
    /\ last.available[2].last_used_at = None
    /\ last.available[1].daily_limit - last.available[1].dms_sent_today
          = last.available[2].daily_limit - last.available[2].dms_sent_today
    /\ last.result = Some(last.available[2])

\* C8: an account loaded with status blocked, an elapsed blocked_until and quota
\* left (its counts obtained from the send log) is kept as available by the select.
C8_ElapsedBlockIsAvailable ==
    last.op = "select" =>
        \A x \in Loaded(last) :
            (/\ x.status = "blocked"
             /\ x.id \in last.statsOk
             /\ x.blocked_until # None
             /\ x.blocked_until[1] <= last.at
             /\ x.dms_sent_today < x.daily_limit
             /\ x.dms_sent_last_hour < x.hourly_limit)
            => x.id \in AvailableIds(last)

\* C9: blocked_until is stored only with status blocked, and a mark_blocked
\* whose update succeeded leaves a blocked_until strictly after the time of the call.
C9_BlockedUntilInFuture ==
    /\ \A a \in AccountIds :
          accounts[a].blocked_until # None => accounts[a].status = "blocked"
    /\ (last.op = "mark_blocked" /\ last.ok) =>
          /\ accounts[last.id].blocked_until # None
          /\ accounts[last.id].blocked_until[1] > clock

\* C10: when the load of the tenant's rows fails, get_available_account returns
\* none and raises nothing.
C10_LoadFailureReturnsNone ==
    (last.op = "select" /\ ~last.loadOk) => (last.result = None /\ ~last.raised)

\* C10 witness: the load failed for a tenant that has an active account with
\* quota left in the store.
C10_Witness ==
    /\ last.op = "select"
    /\ ~last.loadOk
    /\ \E a \in TenantRows(last.tenant) :
          /\ accounts[a].status = "active"
          /\ SentToday(a) < accounts[a].daily_limit
          /\ SentLastHour(a) < accounts[a].hourly_limit

(***************************************************************************)
(* Properties of the Sliding Window Limiter.                               *)
(***************************************************************************)

\* the admitted timestamps of client c inside the trailing window
InWindow(c) == {i \in 1..Len(TimesOf(c)) : TimesOf(c)[i] > now - WindowTicks}

\* C4: at every moment and for every client, at most max_requests admitted
\* timestamps lie inside the trailing window.
C4_AtMostMaxInWindow ==
    \A c \in Clients : Cardinality(InWindow(c)) <= MaxRequests

\* C4 witness: a client has one slot left, one of its calls holds the lock and
\* has counted, and another of its calls waits for the lock.
C4_Witness ==
    \E t, u \in Tasks :
        /\ t # u
        /\ rpc[t] = "decide"
        /\ rpc[u] = "acquire"
        /\ rloc[t].client = rloc[u].client
        /\ rloc[t].count = MaxRequests - 1

\* C5: as long as no timestamp of the client has expired, its k-th call is
\* admitted with remaining = max_requests - k for k <= max_requests, and call
\* max_requests + 1 is rejected with 0 <= reset <= window_seconds.
C5_FirstWindow ==
    \A c \in Clients :
        (hist[c].fresh /\ hist[c].calls >= 1 /\ hist[c].calls <= MaxRequests + 1) =>
            LET k == hist[c].calls
                out == hist[c].out[1]
            IN  IF k <= MaxRequests
                THEN out.allowed /\ out.remaining = MaxRequests - k
                ELSE /\ ~out.allowed
                     /\ out.reset >= 0
                     /\ out.reset <= WindowSeconds

\* C5 witness: call max_requests + 1 of a client returned, rejected, before any
\* of its timestamps expired.
C5_Witness ==
    \E c \in Clients :
        /\ hist[c].fresh
        /\ hist[c].calls = MaxRequests + 1
        /\ ~hist[c].out[1].allowed


(***************************************************************************)
(* Properties of the Lead Scoring Engine and the template tier.            *)
(***************************************************************************)

\* calculate_score returned a LeadScore
Scored == score # None /\ ~score[1].raised

\* C11: every LeadScore has total in 0..100, total equal to the sum of the four
\* sub-scores, bio <= 30, engagement <= 30, profile <= 25, recency <= 15, and
\* no sub-score below zero.
C11_TotalIsCappedSum ==
    Scored =>
        LET s == score[1]
        IN  /\ s.total_score \in 0..100
            /\ s.total_score = s.bio_score + s.engagement_score + s.profile_score + s.recency_score
            /\ s.bio_score \in 0..30
            /\ s.engagement_score \in 0..30
            /\ s.profile_score \in 0..25
            /\ s.recency_score \in 0..15

\* C11 witness: a profile that reaches every cap at once and totals 100.
C11_Witness ==
    /\ Scored
    /\ score[1].bio_score = 30
    /\ score[1].engagement_score = 30
    /\ score[1].profile_score = 25
    /\ score[1].recency_score = 15
    /\ score[1].total_score = 100

\* C12: the priority is a function of the total alone: hot iff total >= 70,
\* warm iff 50..69, cold iff 40..49, nurturing iff below 40.
C12_PriorityByThresholds ==
    Scored =>
        LET s == score[1]
        IN  /\ (s.priority = "hot") <=> (s.total_score >= 70)
            /\ (s.priority = "warm") <=> (s.total_score >= 50 /\ s.total_score <= 69)
            /\ (s.priority = "cold") <=> (s.total_score >= 40 /\ s.total_score <= 49)
            /\ (s.priority = "nurturing") <=> (s.total_score < 40)

\* C12 witness: a total of exactly 70 is hot.
C12_Witness ==
    /\ Scored
    /\ score[1].total_score = 70
    /\ score[1].priority = "hot"

\* the profile of the example: 150,000 followers, a bio containing "CEO", the
\* private flag false, 120 posts and three recent posts
ExampleProfile ==
    /\ profile # None
    /\ profile[1].followers_count = Some(150000)
    /\ profile[1].bio \notin {Absent, None}
    /\ Contains(profile[1].bio[1], <<"C", "E", "O">>)
    /\ profile[1].is_private = Some(FALSE)
    /\ profile[1].posts_count = Some(120)
    /\ profile[1].recent_posts \notin {Absent, None}
    /\ profile[1].recent_posts[1] >= 3

AllEmpty == profile # None /\ profile[1] \in EmptyProfiles

\* C14 as stated: an all-empty profile, private flag false or absent, is
\* nurturing with all four sub-scores zero.
C14_AsStated ==
    AllEmpty =>
        /\ Scored
        /\ score[1].priority = "nurturing"
        /\ score[1].bio_score = 0
        /\ score[1].engagement_score = 0
        /\ score[1].profile_score = 0
        /\ score[1].recency_score = 0

\* C14: an all-empty profile is nurturing with bio, engagement and recency
\* sub-scores zero; its profile sub-score is zero when the private flag is
\* absent and 10 when the flag is present and false.
C14_EmptyIsNurturing ==
    AllEmpty =>
        /\ Scored
        /\ score[1].priority = "nurturing"
        /\ score[1].total_score < 40
        /\ score[1].bio_score = 0
        /\ score[1].engagement_score = 0
        /\ score[1].recency_score = 0
        /\ score[1].profile_score = (IF profile[1].is_private = Absent THEN 0 ELSE 10)
        /\ score[1].total_score = score[1].profile_score

\* C14 witness: an all-empty profile with the private flag false, scored 10.
C14_Witness ==
    /\ AllEmpty
    /\ Scored
    /\ profile[1].is_private = Some(FALSE)
    /\ score[1].profile_score = 10
    /\ score[1].priority = "nurturing"

\* the points the scorer gives a profile without the key
WithoutKey(p, key) == CalculateScore([p EXCEPT ![key] = Absent])

\* C15 as stated: calculate_score returns a LeadScore for every profile, and a
\* key that is present with the value None scores as if it were absent.
C15_NeverFails ==
    profile # None =>
        /\ ~score[1].raised
        /\ \A key \in DOMAIN profile[1] :
              profile[1][key] = None =>
                  score[1].total_score = WithoutKey(profile[1], key).total_score

\* the tier names of the three sites: recommended_template uses the template
\* set names, the generators use ultra / high / medium
TierOf(template) ==
    IF template = "ultra_personalized" THEN "ultra"
    ELSE IF template = "personalized" THEN "high"
    ELSE "medium"

\* the rule of the template tier
TierRule(total, profession) ==
    IF total >= 70 /\ profession # None THEN "ultra"
    ELSE IF total >= 50 THEN "high"
    ELSE "medium"

\* C16 as stated: recommended_template, generate and generate_hybrid all give
\* the tier of the rule: ultra iff total >= 70 with a profession, high iff
\* total >= 50 otherwise, else medium.
C16_TiersAgree ==
    (Scored /\ composed.template # None /\ composed.hybrid # None) =>
        LET tier == TierRule(score[1].total_score, score[1].detected_profession)
        IN  /\ TierOf(score[1].recommended_template) = tier
            /\ composed.template[1] = tier
            /\ composed.hybrid[1] = tier


(***************************************************************************)
(* Properties of the Spintax Expansion Engine.                             *)
(***************************************************************************)

\* the number of opening braces minus the number of closing braces in s[1..i]
Depth(s, i) ==
    Cardinality({j \in 1..i : s[j] = "{"}) - Cardinality({j \in 1..i : s[j] = "}"})

\* every closing brace closes an earlier opening one, and none stays open
Balanced(s) ==
    /\ \A i \in 1..Len(s) : Depth(s, i) >= 0
    /\ Depth(s, Len(s)) = 0

NoBraces(s) == \A i \in 1..Len(s) : ~IsBrace(s[i])

\* expand_spintax returned from the call on the input itself
Expanded == spPc = "done" /\ spPrev = None

\* C17 as stated: on a balanced input, nested to any depth, the text returned
\* holds no brace; the input {a|b} gives a or b and {a|{b|c}} gives a, b or c.
C17_BalancedLeavesNoBraces ==
    (Expanded /\ Balanced(spIn)) =>
        /\ NoBraces(spText)
        /\ (spIn = FlatGroup => spText \in {<<"a">>, <<"b">>})
        /\ (spIn = NestedGroup => spText \in {<<"a">>, <<"b">>, <<"c">>})

\* C18: every call returns: the loop makes at most max_iterations passes, a
\* call that is in the loop reaches its return, and the return hands back the
\* text as the last pass left it.
C18_TerminatesWithinCap ==
    /\ [](spIter <= MaxIterations)
    /\ (spPc = "loop") ~> (spPc = "done")
    /\ [][(spPc = "loop" /\ spPc' = "done") => spText' = spText]_vars

\* C18 witness: the call returned after max_iterations passes with a group
\* still unexpanded in the text.
C18_Witness ==
    /\ spPc = "done"
    /\ spIter = MaxIterations
    /\ HasMatch(spText)

\* C19: on a text without braces the call returns the text itself, so a second
\* call on a brace-free result returns that result.
C19_IdentityOnBraceFree ==
    /\ (spPc = "done" /\ NoBraces(spIn)) => spText = spIn
    /\ (spPc = "done" /\ spPrev # None /\ NoBraces(spPrev[1])) => spText = spPrev[1]

\* C19 witness: "plain text" was expanded, and its result expanded again.
C19_Witness ==
    /\ spPc = "done"
    /\ spPrev = Some(PlainText)
    /\ spText = PlainText


(***************************************************************************)
(* Properties of get_stats.                                                *)
(***************************************************************************)

\* C20: get_stats leaves the tracked clients and every timestamp list as they
\* were, and reports as active_clients the number of clients with a timestamp
\* inside the trailing window and as requests_in_window the number of such
\* timestamps over all clients.
C20_StatsReadsOnly ==
    [][GetStats =>
        /\ DOMAIN requests' = DOMAIN requests
        /\ requests' = requests
        /\ statsOut'[1].active_clients = Cardinality({c \in Clients : InWindow(c) # {}})
        /\ statsOut'[1].requests_in_window =
              Cardinality(UNION {{<<c, i>> : i \in InWindow(c)} : c \in Clients})]_vars

\* C20 witness: get_stats has reported an active client on a limiter that
\* still holds an expired timestamp.
C20_Witness ==
    /\ statsOut # None
    /\ statsOut[1] = GetStatsResult
    /\ statsOut[1].active_clients >= 1
    /\ \E c \in Clients : Len(TimesOf(c)) > Cardinality(InWindow(c))


(***************************************************************************)
(* Further properties of the Sliding Window Limiter.                       *)
(***************************************************************************)

\* C21 as stated: a tracked client with no timestamp inside the window is
\* eventually removed from self.requests, or gets a timestamp inside the
\* window again.
C21_StaleClientsPruned ==
    \A c \in Clients :
        [](c \in DOMAIN requests =>
              <>(c \notin DOMAIN requests \/ InWindow(c) # {}))


\* every timestamp of the list lies in the window that ends at time t
WithinWindow(times, t) ==
    \A i \in 1..Len(times) : times[i] > t - WindowTicks /\ times[i] <= t

\* C22: from the purge step of an is_allowed(c) call up to its return, and in
\* the list the call leaves behind, every timestamp stored for c lies within
\* the window that ends at the call's now.
C22_PurgeKeepsWindow ==
    /\ [](\A t \in Tasks :
             rpc[t] \in {"count", "decide"} =>
                 WithinWindow(TimesOf(rloc[t].client), rloc[t].now))
    /\ [][\A t \in Tasks :
             Decide(t) => WithinWindow(requests'[rloc[t].client], rloc[t].now)]_vars

\* C22 witness: the purge step of a call has dropped an expired timestamp and
\* kept a younger one.
C22_Witness ==
    \E t \in Tasks :
        /\ rpc[t] = "count"
        /\ rloc[t].purged
        /\ TimesOf(rloc[t].client) # <<>>

(***************************************************************************)
(* Further properties of the Account Quota Manager.                        *)
(***************************************************************************)

\* C23: the stored status of an account changes only in a mark_blocked call on
\* it (active to blocked) and in an unblock_account call on it (blocked to
\* active); selecting accounts, record_usage, sending and the passing of time
\* leave the stored status and blocked_until of every account as they were.
C23_StatusOnlyByBlockCalls ==
    [][\A a \in AccountIds :
          /\ (\/ accounts'[a].status # accounts[a].status
              \/ accounts'[a].blocked_until # accounts[a].blocked_until)
                => /\ last'.op \in {"mark_blocked", "unblock"}
                   /\ last'.id = a
          /\ (accounts[a].status = "active" /\ accounts'[a].status = "blocked")
                => last'.op = "mark_blocked"
          /\ (accounts[a].status = "blocked" /\ accounts'[a].status = "active")
                => last'.op = "unblock"]_vars

\* C23 witness: record_usage has stamped an account that is stored blocked with
\* an elapsed blocked_until; the account is still stored blocked.
C23_Witness ==
    /\ last.op = "record_usage"
    /\ last.ok
    /\ accounts[last.id].status = "blocked"
    /\ accounts[last.id].blocked_until # None
    /\ accounts[last.id].blocked_until[1] <= clock
    /\ accounts[last.id].last_used_at = Some(clock)

\* the counters and the availability derived for a stored account
DerivedOf(a) ==
    [stats |-> GetAccountStats(a, clock, TRUE),
     available |-> IsAvailable(MakeAccount(a, GetAccountStats(a, clock, TRUE)), clock)]

\* C24: record_usage writes last_used_at of its account and nothing else: the
\* other fields of the account, every other account, the send log and the
\* counters and availability derived from it are unchanged; a stored update
\* sets last_used_at to now.
C24_RecordUsageOnlyStamps ==
    [][\A c \in Callers :
          RecordUsage(c) =>
              LET a == cur[c][1] IN
              /\ \A b \in AccountIds \ {a} : accounts'[b] = accounts[b]
              /\ accounts'[a] = [accounts[a] EXCEPT
                                    !.last_used_at = accounts'[a].last_used_at]
              /\ accounts'[a].last_used_at
                    = IF last'.ok THEN Some(clock) ELSE accounts[a].last_used_at
              /\ sendLog' = sendLog
              /\ \A b \in AccountIds : DerivedOf(b)' = DerivedOf(b)]_vars

\* C24 witness: record_usage has stamped an account that has a send in the log
\* and quota left, while the other account has never been stamped.
C24_Witness ==
    /\ last.op = "record_usage"
    /\ last.ok
    /\ accounts[last.id].last_used_at = Some(clock)
    /\ sendLog[last.id] # <<>>
    /\ DerivedOf(last.id).available
    /\ \E b \in AccountIds \ {last.id} : accounts[b].last_used_at = None

\* C28: record_usage, mark_blocked and unblock_account never raise; a call whose
\* store update failed leaves every stored account as it was; the select that
\* follows a failed mark_blocked of an active account with quota left, when it
\* loads the rows and the counts, keeps that account as available.
C28_StoreErrorsSwallowed ==
    /\ [](last.op \in {"record_usage", "mark_blocked", "unblock"} => ~last.raised)
    /\ [][(last'.op \in {"record_usage", "mark_blocked", "unblock"} /\ ~last'.ok)
              => accounts' = accounts]_vars
    /\ [][(/\ last.op = "mark_blocked"
           /\ ~last.ok
           /\ last'.op = "select"
           /\ last'.tenant = TenantOf(last.id)
           /\ last'.loadOk
           /\ DerivedOf(last.id).available
           /\ \E x \in Loaded(last') :
                 /\ x.id = last.id
                 /\ x.dms_sent_today = SentToday(last.id)
                 /\ x.dms_sent_last_hour = SentLastHour(last.id))
              => last.id \in AvailableIds(last')]_vars

\* C28 witness: a mark_blocked whose store update failed has returned; its
\* account is stored active and is available with its true counts.
C28_Witness ==
    /\ last.op = "mark_blocked"
    /\ ~last.ok
    /\ ~last.raised
    /\ accounts[last.id].status = "active"
    /\ DerivedOf(last.id).available

\* the client of call t
ClientOf(t) == rloc[t].client

\* C27: a call that finds the oldest timestamp of its client one window old or
\* older purges it and leaves fewer than max_requests timestamps; a call that
\* purged a timestamp is admitted; a rejected call leaves every list as it was
\* after its purge, so rejected calls are not recorded.
C27_ReadmittedAfterWindow ==
    /\ [][\A t \in Tasks :
             (/\ Purge(t)
              /\ TimesOf(ClientOf(t)) # <<>>
              /\ MinOf(TimesOf(ClientOf(t))) <= now - WindowTicks)
                => /\ Len(requests'[ClientOf(t)]) < MaxRequests
                   /\ rloc'[t].purged]_vars
    /\ [][\A t \in Tasks :
             (Decide(t) /\ rloc[t].purged) => hist'[ClientOf(t)].out[1].allowed]_vars
    /\ [][\A t \in Tasks :
             (Decide(t) /\ ~hist'[ClientOf(t)].out[1].allowed)
                => requests' = requests]_vars

\* C27 witness: a client was admitted max_requests times, then rejected twice,
\* and its next call, after the window of its oldest timestamp, was admitted.
C27_Witness ==
    \E c \in Clients :
        /\ hist[c].calls = MaxRequests + 3
        /\ hist[c].rejected = 2
        /\ hist[c].out[1].allowed
        /\ ~hist[c].fresh

\* C29: a timestamp list changes only in a step of a call of its own client, the
\* call holding the lock; the count and the remaining a call works with are those
\* of its client's list; a rejected call found max_requests timestamps in its
\* own client's list, so a client that has made no more than max_requests calls
\* is never rejected, whatever the other clients do.
C29_ClientsIndependent ==
    /\ [][\A d \in Clients :
             TimesOf(d)' # TimesOf(d)
                => \E t \in Tasks :
                      /\ lock = Some(t)
                      /\ ClientOf(t) = d
                      /\ Purge(t) \/ Decide(t)]_vars
    /\ [][\A t \in Tasks :
             Decide(t)
                => /\ rloc[t].count = Len(TimesOf(ClientOf(t)))
                   /\ hist'[ClientOf(t)].out[1].allowed
                         = (Len(TimesOf(ClientOf(t))) < MaxRequests)
                   /\ \A d \in Clients \ {ClientOf(t)} : hist'[d] = hist[d]]_vars
    /\ [](\A c \in Clients :
             (hist[c].out # None /\ ~hist[c].out[1].allowed)
                => hist[c].calls > MaxRequests)

\* C29 witness: one client has used up its quota and was rejected; the other
\* client, calling in the same window, was admitted with its full quota before it.
C29_Witness ==
    \E c \in Clients, d \in Clients :
        /\ c # d
        /\ hist[c].out # None
        /\ ~hist[c].out[1].allowed
        /\ Len(TimesOf(c)) = MaxRequests
        /\ hist[c].fresh
        /\ hist[d].fresh
        /\ hist[d].calls = 1
        /\ hist[d].out[1].allowed
        /\ hist[d].out[1].remaining = MaxRequests - 1
        /\ TimesOf(d) = <<now>>
        /\ \A i \in 1..Len(TimesOf(c)) : TimesOf(c)[i] <= now

(***************************************************************************)
(* Further properties of the Lead Scoring Engine and of the hooks.         *)
(***************************************************************************)

\* the detected profession is one of the decision-maker keywords
ProfessionIsDecisionMakerKeyword(name) ==
    \E j \in 1..Len(DECISION_MAKER_KEYWORDS) :
        DECISION_MAKER_KEYWORDS[j] = ProfessionText[name]

\* C25: a LeadScore whose detected profession belongs to the decision-maker
\* keyword set has is_decision_maker true.
C25_DecisionMakerProfession ==
    (/\ Scored
     /\ score[1].detected_profession # None
     /\ ProfessionIsDecisionMakerKeyword(score[1].detected_profession[1]))
        => score[1].is_decision_maker

\* the bio, the detected profession and the detected interests a message of the
\* scored profile is composed from
HookBio == OrEmpty(BioOf(profile[1]))
HookProfession == score[1].detected_profession
HookInterests == score[1].detected_interests

\* the hooks of the messages composed so far
ComposedHooks ==
    {h[1] : h \in {composed.bio_hook, composed.hybrid_bio_hook} \ {None}}

\* the canned sentences of the specific keywords found in the bio, of the
\* detected profession and of the detected interests
KeywordSentences ==
    {SPECIALTIES[r].hook :
        r \in {q \in 1..Len(SPECIALTIES) : Contains(Lower(HookBio), SPECIALTIES[q].keyword)}}
ProfessionSentences ==
    IF HookProfession = None THEN {}
    ELSE UNION {{PROFESSION_HOOKS[r].hooks[i] : i \in 1..Len(PROFESSION_HOOKS[r].hooks)} :
                   r \in {q \in 1..Len(PROFESSION_HOOKS) :
                             PROFESSION_HOOKS[q].name = HookProfession[1]}}
InterestSentences ==
    {INTEREST_HOOKS[r].hook :
        r \in {q \in 1..Len(INTEREST_HOOKS) : INTEREST_HOOKS[q].name \in HookInterests}}

\* C26 as stated: the hook is the canned sentence of a specific keyword found in
\* the bio; otherwise, a canned sentence of the detected profession; otherwise a
\* canned sentence of a detected interest; otherwise empty.
C26_AsStated ==
    Scored =>
        \A h \in ComposedHooks :
            IF KeywordSentences # {} THEN h \in KeywordSentences
            ELSE IF ProfessionSentences # {} THEN h \in ProfessionSentences
            ELSE IF InterestSentences # {} THEN h \in InterestSentences
            ELSE h = <<>>

\* the sentence of the first specific keyword, in the order of the table, found
\* in the bio
FirstKeywordSentence ==
    SPECIALTIES[CHOOSE r \in 1..Len(SPECIALTIES) :
                   /\ Contains(Lower(HookBio), SPECIALTIES[r].keyword)
                   /\ \A q \in 1..(r - 1) :
                         ~Contains(Lower(HookBio), SPECIALTIES[q].keyword)].hook

\* the separators found in the bio with 11 to 49 characters, stripped, before
\* their first occurrence
PartSeparators ==
    {k \in 1..Len(SEPARATORS) :
        /\ HasSeparator(HookBio, SEPARATORS[k])
        /\ Len(Strip(SplitFirst(HookBio, SEPARATORS[k]))) \in 11..49}

\* the sentence built from the first part of the bio, for the first such separator
FirstPartSentence ==
    LET k == CHOOSE m \in PartSeparators : \A j \in PartSeparators : m <= j
    IN  HookPrefix \o Lower(Strip(SplitFirst(HookBio, SEPARATORS[k]))) \o <<".">>

\* C26 amended: for a bio of more than 10 characters the hook is the canned
\* sentence of the first specific keyword found in it or, when there is none,
\* the sentence built from the first part of the bio before a separator, when
\* that part has 11 to 49 characters; otherwise it is a canned sentence of the
\* detected profession; otherwise a canned sentence of a detected interest;
\* otherwise empty.
C26_HookPriority ==
    Scored =>
        \A h \in ComposedHooks :
            IF Len(HookBio) > 10 /\ KeywordSentences # {} THEN h = FirstKeywordSentence
            ELSE IF Len(HookBio) > 10 /\ PartSeparators # {} THEN h = FirstPartSentence
            ELSE IF ProfessionSentences # {} THEN h \in ProfessionSentences
            ELSE IF InterestSentences # {} THEN h \in InterestSentences
            ELSE h = <<>>

\* C26 witness: the bio has no specific keyword and the detected profession has
\* canned sentences; the message was composed with the sentence built from the
\* first part of the bio.
C26_Witness ==
    /\ Scored
    /\ composed.bio_hook # None
    /\ KeywordSentences = {}
    /\ ProfessionSentences # {}
    /\ PartSeparators # {}
    /\ composed.bio_hook[1] = FirstPartSentence
    /\ composed.bio_hook[1] \notin ProfessionSentences

(***************************************************************************)
(* Properties of the DM campaign.                                          *)
(***************************************************************************)

\* the attempts made in the hour that ends with the i-th attempt, and in its day
AttemptsInHour(i) ==
    Cardinality({j \in 1..i : dmAttempts[j] > dmAttempts[i] - 1})
AttemptsInDay(i) ==
    Cardinality({j \in 1..Len(dmAttempts) :
                    TodayStart(dmAttempts[j]) = TodayStart(dmAttempts[i])})

\* C30: no send is attempted while the send log holds MAX_DMS_PER_DAY rows of
\* today or MAX_DMS_PER_HOUR rows of the last hour; every attempt is in the log
\* at the next check; the agent makes no more than MAX_DMS_PER_HOUR attempts in
\* a trailing hour and no more than MAX_DMS_PER_DAY in a day.
C30_CampaignWithinLimits ==
    /\ cpc = "send" =>
          /\ CountSince(dmLog, TodayStart(cnow)) < MAX_DMS_PER_DAY
          /\ CountSince(dmLog, OneHourAgo(cnow)) < MAX_DMS_PER_HOUR
    /\ cpc = "check" => Len(dmLog) = Len(dmAttempts)
    /\ \A i \in 1..Len(dmAttempts) :
          /\ AttemptsInHour(i) <= MAX_DMS_PER_HOUR
          /\ AttemptsInDay(i) <= MAX_DMS_PER_DAY

=============================================================================
